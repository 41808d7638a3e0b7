--------------------------- MODULE TextSaveProofs ---------------------------
(***************************************************************************)
(* What holds of the text fields for every choice of fields, texts, users   *)
(* and bounds.  The inductive invariant has a part that always holds and a  *)
(* part, Sound, that holds until somebody signs in again while a batch of   *)
(* theirs is still on its way.                                              *)
(***************************************************************************)
EXTENDS TextSave, SequenceTheorems, TLAPS

(* An entry exists exactly while something typed is remembered, and only    *)
(* while its author is signed in; nobody else's edits join a batch.         *)
Steady ==
  /\ \A f \in Fields :
       /\ user = None => entry[f].status = "none"
       /\ entry[f].status = "none" => entry[f] = NoEntry /\ typed[f] = None /\ ~landed[f]
       /\ entry[f].status # "none" => entry[f].version > 0 /\ typed[f] # None
  /\ batch # NoBatch /\ user # None => batch.by = user
  /\ \A i \in DOMAIN queue : \A f \in Fields :
       queue[i].texts[f] = None => queue[i].versions[f] = 0
  /\ wire.at # "idle" => queue # <<>>

Seen(f) == Shown(f) \subseteq known[f]

Held(f) ==
  entry[f].status # "none" =>
    /\ entry[f].acked \in known[f] /\ entry[f].conflict \in known[f] \cup {None}
    /\ entry[f].status # "saved" => entry[f].draft = typed[f]
    /\ entry[f].status = "saved" => entry[f].draft = None /\ landed[f]

Batched(f) ==
  batch.texts[f] # None =>
    /\ batch.texts[f] \in known[f]
    /\ batch.by = user => entry[f].status = "pending" /\ typed[f] = batch.texts[f]

Waits(t, f) == t.texts[f] # None /\ t.by = user
Queued(f) ==
  /\ \A i \in DOMAIN queue :
       /\ queue[i].texts[f] # None => queue[i].texts[f] \in known[f]
       /\ Waits(queue[i], f) =>
            /\ entry[f].status \in {"pending", "saving"}
            /\ queue[i].versions[f] > 0 /\ queue[i].versions[f] <= entry[f].version
            /\ queue[i].versions[f] = entry[f].version => queue[i].texts[f] = typed[f]
            /\ batch.texts[f] # None => queue[i].versions[f] < entry[f].version
  /\ \A i, j \in DOMAIN queue :
       i < j /\ Waits(queue[i], f) /\ Waits(queue[j], f)
         => queue[i].versions[f] < queue[j].versions[f]

Sent(f) ==
  wire.at # "idle" =>
    /\ queue[1].texts[f] # None => wire.base[f] \in known[f]
    /\ wire.at = "stored" /\ Waits(queue[1], f) /\ queue[1].versions[f] = entry[f].version
         => landed[f]

Overdue(f) ==
  \A r \in late : r.texts[f] # None => r.base[f] \in known[f] /\ r.texts[f] \in known[f]

Sound == \A f \in Fields :
  Seen(f) /\ Held(f) /\ Batched(f) /\ Queued(f) /\ Sent(f) /\ Overdue(f)

Inv == TypeOK /\ Steady /\ (revenant \/ Sound)
-----------------------------------------------------------------------------
(* The operators on entries. *)

LEMMA EntryTypes ==
  ASSUME NEW e \in Entries, NEW v \in Nat, NEW b \in Texts, NEW s \in Texts
  PROVE  /\ NoEntry \in Entries
         /\ NoteEdit(e, s, b) \in Entries
         /\ NoteSend(e, v) \in Entries
  BY DEF Entries, NoEntry, NoteEdit, BaseOfRun, NoteSend

LEMMA SettledTypes ==
  ASSUME NEW e \in Entries, NEW v \in Nat, NEW t \in Texts \cup {None}, NEW ok \in BOOLEAN,
         NEW o \in Texts \cup {None}, ok /\ v # 0 => t \in Texts
  PROVE  NoteSettled(e, v, t, ok, o) \in Entries
  BY DEF Entries, NoteSettled, NoLessThanNone

Counters == [edits : Nat, fails : Nat, others : Nat, logins : Nat, reloads : Nat]

LEMMA CountersRise ==
  ASSUME NEW b \in Counters
  PROVE  /\ [b EXCEPT !.edits = @ + 1] \in Counters
         /\ [b EXCEPT !.fails = @ + 1] \in Counters
         /\ [b EXCEPT !.others = @ + 1] \in Counters
         /\ [b EXCEPT !.logins = @ + 1] \in Counters
         /\ [b EXCEPT !.reloads = @ + 1] \in Counters
  BY DEF Counters

LEMMA Remembering ==
  ASSUME known \in [Fields -> SUBSET Texts], user' \in Users \cup {None},
         board' \in [Fields -> Texts], entry' \in [Fields -> Entries], Remembers
  PROVE  /\ known' \in [Fields -> SUBSET Texts]
         /\ \A f \in Fields : known[f] \subseteq known'[f] /\ Seen(f)'
  BY DEF Remembers, Shown, Seen, Entries

(* The queue. *)

LEMMA QueueElements ==
  ASSUME NEW S, NEW q \in Seq(S)
  PROVE  \A i \in DOMAIN q : q[i] \in S /\ i \in Nat /\ i > 0
  BY LenProperties

LEMMA QueuedTickets ==
  ASSUME TypeOK
  PROVE  \A i \in DOMAIN queue :
           /\ queue[i] \in Tickets /\ i \in Nat /\ i > 0
           /\ \A f \in Fields :
                queue[i].versions[f] \in Nat /\ queue[i].texts[f] \in Texts \cup {None}
<1>1. queue \in Seq(Tickets)
  BY DEF TypeOK
<1>2. \A i \in DOMAIN queue : queue[i] \in Tickets /\ i \in Nat /\ i > 0
  BY <1>1, QueueElements
<1> QED
  BY <1>2 DEF Tickets, MaybeTexts

LEMMA QueueTail ==
  ASSUME NEW S, NEW q \in Seq(S), q # <<>>
  PROVE  /\ Tail(q) \in Seq(S) /\ Head(q) = q[1] /\ q[1] \in S /\ 1 \in DOMAIN q
         /\ \A i \in DOMAIN Tail(q) : i \in Nat \ {0} /\ i + 1 \in DOMAIN q /\ Tail(q)[i] = q[i + 1]
  OBVIOUS

LEMMA QueueAppend ==
  ASSUME NEW S, NEW q \in Seq(S), NEW t \in S
  PROVE  /\ Append(q, t) \in Seq(S) /\ Append(q, t) # <<>>
         /\ q # <<>> => Append(q, t)[1] = q[1]
         /\ \A i \in DOMAIN q : i \in Nat /\ i <= Len(q)
         /\ \A i \in DOMAIN Append(q, t) :
              \/ i \in DOMAIN q /\ i \in Nat /\ i <= Len(q) /\ Append(q, t)[i] = q[i]
              \/ i = Len(q) + 1 /\ Append(q, t)[i] = t
<1>1. /\ Append(q, t) \in Seq(S) /\ Append(q, t) # <<>> /\ Len(Append(q, t)) = Len(q) + 1
      /\ \A i \in 1 .. Len(q) : Append(q, t)[i] = q[i]
      /\ Append(q, t)[Len(q) + 1] = t
  BY AppendProperties
<1>2. DOMAIN q = 1 .. Len(q) /\ Len(q) \in Nat /\ DOMAIN Append(q, t) = 1 .. Len(q) + 1
  BY <1>1, LenProperties
<1>3. q # <<>> => Len(q) >= 1
  BY <1>2, EmptySeq
<1> QED
  BY <1>1, <1>2, <1>3
-----------------------------------------------------------------------------
(* Every action keeps the invariant. *)

LEMMA EnterStep ==
  ASSUME Inv, NEW f \in Fields, NEW text \in Texts, NEW e \in Entries,
         user # None, Enter(f, text, e),
         e.version = entry[f].version, e.draft = entry[f].draft,
         ~revenant /\ e.draft # None => e.acked \in known[f] /\ e.conflict \in known[f] \cup {None}
  PROVE  Inv'
<1>1. /\ entry' \in [Fields -> Entries] /\ entry'[f] = NoteEdit(e, text, board[f])
      /\ \A g \in Fields \ {f} : entry'[g] = entry[g]
  <2>1. NoteEdit(e, text, board[f]) \in Entries
    BY EntryTypes DEF Inv, TypeOK
  <2> QED
    BY <2>1 DEF Inv, TypeOK, Enter
<1>2. /\ batch' \in [texts : MaybeTexts, by : Users] /\ batch'.by = user /\ batch'.texts[f] = text
      /\ \A g \in Fields \ {f} : batch'.texts[g] = batch.texts[g]
  BY DEF Inv, TypeOK, Enter, NoBatch, NoTexts, MaybeTexts
<1>3. /\ board' \in [Fields -> Texts] /\ typed' \in MaybeTexts /\ landed' \in [Fields -> BOOLEAN]
      /\ typed'[f] = text /\ ~landed'[f] /\ board'[f] = text
      /\ \A g \in Fields \ {f} : typed'[g] = typed[g] /\ landed'[g] = landed[g] /\ board'[g] = board[g]
  BY DEF Inv, TypeOK, Enter, MaybeTexts
<1>4. /\ known' \in [Fields -> SUBSET Texts]
      /\ \A g \in Fields : known[g] \subseteq known'[g] /\ Seen(g)'
  BY <1>1, <1>3, Remembering DEF Inv, TypeOK, Enter
<1>5. TypeOK'
  <2>1. bounds \in Counters /\ bounds' = [bounds EXCEPT !.edits = @ + 1]
    BY DEF Inv, TypeOK, Enter, Counters
  <2>3. bounds' \in Counters
    BY <2>1, CountersRise
  <2>2. snap' = NoSnap /\ UNCHANGED <<stored, late, user, queue, wire, revenant>>
    BY DEF Enter, server
  <2> QED
    BY <1>1, <1>2, <1>3, <1>4, <2>2, <2>3 DEF Inv, TypeOK, Counters
<1>6. Steady'
  <2>1. entry'[f].status = "pending" /\ entry'[f].version = entry[f].version + 1
    BY <1>1 DEF NoteEdit
  <2>2. entry[f].version \in Nat
    BY DEF Inv, TypeOK, Entries
  <2>3. UNCHANGED <<user, queue, wire>>
    BY DEF Enter
  <2>4. ASSUME NEW g \in Fields
        PROVE  /\ user' = None => entry'[g].status = "none"
               /\ entry'[g].status = "none" => entry'[g] = NoEntry /\ typed'[g] = None /\ ~landed'[g]
               /\ entry'[g].status # "none" => entry'[g].version > 0 /\ typed'[g] # None
    <3>1. CASE g = f
      BY <3>1, <1>3, <2>1, <2>2, <2>3, NoneAssumption
    <3>2. CASE g # f
      BY <3>2, <1>1, <1>3, <2>3 DEF Inv, Steady
    <3> QED
      BY <3>1, <3>2
  <2> QED
    BY <1>2, <2>3, <2>4 DEF Inv, Steady
<1>7. ASSUME ~revenant' PROVE Sound'
  <2>1. ~revenant /\ Sound /\ TypeOK /\ Steady
    BY <1>7 DEF Inv, Enter
  <2>2. UNCHANGED <<stored, late, user, queue, wire>>
    BY DEF Enter, server
  <2>3. ASSUME NEW g \in Fields
        PROVE  (Seen(g) /\ Held(g) /\ Batched(g) /\ Queued(g) /\ Sent(g) /\ Overdue(g))'
    <3>1. CASE g = f
      <4>1. Held(f)'
        <5>1. /\ entry'[f].status = "pending" /\ entry'[f].draft = text
              /\ entry'[f].acked = IF e.draft # None THEN e.acked ELSE board[f]
              /\ entry'[f].conflict = IF e.draft # None THEN e.conflict ELSE None
          BY <1>1 DEF NoteEdit, BaseOfRun
        <5>2. known[f] \subseteq known'[f] /\ typed'[f] = text
          BY <1>3, <1>4
        <5>3. e.draft = None => board[f] \in known[f]
          BY <2>1 DEF Sound, Seen, Shown
        <5> QED
          BY <2>1, <5>1, <5>2, <5>3 DEF Held
      <4>2. Batched(f)'
        <5>1. entry'[f].draft = text /\ entry'[f].status = "pending"
          BY <1>1 DEF NoteEdit
        <5>2. text \in known'[f]
          BY <1>4, <5>1, <2>2, NoneAssumption DEF Seen, Shown
        <5> QED
          BY <1>2, <1>3, <5>1, <5>2 DEF Batched
      <4>3. Queued(f)'
        <5>1. entry'[f].status = "pending" /\ entry'[f].version = entry[f].version + 1
          BY <1>1 DEF NoteEdit
        <5>2. entry[f].version \in Nat
          BY <2>1 DEF TypeOK, Entries
        <5>3. \A i \in DOMAIN queue : queue[i].versions[f] \in Nat
          BY <2>1, QueuedTickets
        <5>4. \A i \in DOMAIN queue :
                /\ queue[i].texts[f] # None => queue[i].texts[f] \in known'[f]
                /\ Waits(queue[i], f) => queue[i].versions[f] > 0 /\ queue[i].versions[f] < entry'[f].version
          BY <1>4, <5>1, <5>2, <5>3, <2>1 DEF Queued, Sound
        <5>5. \A i, j \in DOMAIN queue :
                i < j /\ Waits(queue[i], f) /\ Waits(queue[j], f)
                  => queue[i].versions[f] < queue[j].versions[f]
          BY <2>1 DEF Queued, Sound
        <5>6. \A i \in DOMAIN queue : Waits(queue[i], f) =>
                /\ queue[i].versions[f] <= entry'[f].version
                /\ queue[i].versions[f] # entry'[f].version
          BY <5>1, <5>2, <5>3, <5>4
        <5>7. \A i \in DOMAIN queue' :
                /\ queue'[i].texts[f] # None => queue'[i].texts[f] \in known'[f]
                /\ Waits(queue[i], f)' =>
                     /\ entry'[f].status \in {"pending", "saving"}
                     /\ queue'[i].versions[f] > 0 /\ queue'[i].versions[f] <= entry'[f].version
                     /\ queue'[i].versions[f] # entry'[f].version
                     /\ queue'[i].versions[f] < entry'[f].version
          BY <5>1, <5>4, <5>6, <2>2 DEF Waits
        <5>8. \A i, j \in DOMAIN queue' :
                i < j /\ Waits(queue[i], f)' /\ Waits(queue[j], f)'
                  => queue'[i].versions[f] < queue'[j].versions[f]
          BY <5>5, <2>2 DEF Waits
        <5> QED
          BY <5>7, <5>8 DEF Queued
      <4>4. Sent(f)'
        <5>1. entry'[f].version = entry[f].version + 1 /\ entry[f].version \in Nat
          BY <1>1, <2>1 DEF NoteEdit, TypeOK, Entries
        <5>2. wire.at # "idle" => 1 \in DOMAIN queue /\ queue[1] \in Tickets
          BY <2>1, QueueTail DEF Steady, TypeOK
        <5>3. wire.at # "idle" => queue[1].versions[f] \in Nat
          BY <5>2 DEF Tickets
        <5>4. wire.at # "idle" /\ Waits(queue[1], f) => queue[1].versions[f] <= entry[f].version
          BY <5>2, <2>1 DEF Sound, Queued
        <5> QED
          BY <1>4, <2>1, <2>2, <5>1, <5>3, <5>4 DEF Sent, Sound, Waits
      <4>5. Overdue(f)'
        BY <1>4, <2>1, <2>2 DEF Overdue, Sound
      <4> QED
        BY <3>1, <1>4, <4>1, <4>2, <4>3, <4>4, <4>5
    <3>2. CASE g # f
      <4>1. entry'[g] = entry[g] /\ typed'[g] = typed[g] /\ landed'[g] = landed[g]
            /\ batch'.texts[g] = batch.texts[g] /\ known[g] \subseteq known'[g]
        BY <3>2, <1>1, <1>2, <1>3, <1>4
      <4>2. Held(g)' /\ Overdue(g)' /\ Sent(g)'
        BY <4>1, <2>1, <2>2 DEF Held, Overdue, Sent, Waits, Sound
      <4>3. Batched(g)'
        BY <4>1, <1>2, <2>1, <2>2 DEF Batched, Sound, Steady, NoBatch, NoTexts
      <4>4. Queued(g)'
        BY <4>1, <2>1, <2>2 DEF Queued, Waits, Sound
      <4> QED
        BY <1>4, <4>2, <4>3, <4>4
    <3> QED
      BY <3>1, <3>2
  <2> QED
    BY <2>3 DEF Sound
<1> QED
  BY <1>5, <1>6, <1>7 DEF Inv

(* Giving up on a text whose save was refused. *)

LEMMA TakeTheirsStep ==
  ASSUME Inv, NEW f \in Fields, TakeTheirs(f)
  PROVE  Inv'
<1>1. /\ entry' \in [Fields -> Entries] /\ entry'[f] = NoEntry
      /\ \A g \in Fields \ {f} : entry'[g] = entry[g]
  BY EntryTypes DEF Inv, TypeOK, TakeTheirs, NoEntry, Entries
<1>2. /\ typed' \in MaybeTexts /\ landed' \in [Fields -> BOOLEAN]
      /\ typed'[f] = None /\ ~landed'[f]
      /\ \A g \in Fields \ {f} : typed'[g] = typed[g] /\ landed'[g] = landed[g]
  BY DEF Inv, TypeOK, TakeTheirs, MaybeTexts
<1>3. UNCHANGED <<stored, late, user, board, snap, batch, queue, wire, bounds, revenant>>
  BY DEF TakeTheirs, server, screen, pipe
<1>4. /\ known' \in [Fields -> SUBSET Texts]
      /\ \A g \in Fields : known[g] \subseteq known'[g] /\ Seen(g)'
  BY <1>1, <1>3, Remembering DEF Inv, TypeOK, TakeTheirs
<1>5. TypeOK'
  BY <1>1, <1>2, <1>3, <1>4 DEF Inv, TypeOK
<1>6. Steady'
  <2>1. ASSUME NEW g \in Fields
        PROVE  /\ user' = None => entry'[g].status = "none"
               /\ entry'[g].status = "none" => entry'[g] = NoEntry /\ typed'[g] = None /\ ~landed'[g]
               /\ entry'[g].status # "none" => entry'[g].version > 0 /\ typed'[g] # None
    <3>1. CASE g = f
      BY <3>1, <1>1, <1>2 DEF NoEntry
    <3>2. CASE g # f
      BY <3>2, <1>1, <1>2, <1>3 DEF Inv, Steady
    <3> QED
      BY <3>1, <3>2
  <2> QED
    BY <1>3, <2>1 DEF Inv, Steady
<1>7. ASSUME ~revenant' PROVE Sound'
  <2>1. ~revenant /\ Sound /\ TypeOK /\ Steady /\ user # None /\ entry[f].status = "failed"
    BY <1>7, <1>3 DEF Inv, TakeTheirs, Asked
  <2>2. ASSUME NEW g \in Fields
        PROVE  (Seen(g) /\ Held(g) /\ Batched(g) /\ Queued(g) /\ Sent(g) /\ Overdue(g))'
    <3>1. CASE g = f
      <4>1. \A i \in DOMAIN queue : ~Waits(queue[i], f)
        BY <2>1 DEF Sound, Queued
      <4>2. wire.at # "idle" => 1 \in DOMAIN queue
        BY <2>1, QueueTail DEF Steady, TypeOK
      <4>3. batch.texts[f] # None => batch.by # user
        BY <2>1 DEF Sound, Batched
      <4>4. Held(f)' /\ Overdue(f)'
        BY <1>1, <1>3, <1>4, <2>1 DEF Held, NoEntry, Overdue, Sound
      <4>5. Batched(f)' /\ Queued(f)' /\ Sent(f)'
        BY <4>1, <4>2, <4>3, <1>3, <1>4, <2>1 DEF Batched, Queued, Sent, Waits, Sound
      <4> QED
        BY <3>1, <1>4, <4>4, <4>5
    <3>2. CASE g # f
      BY <3>2, <1>1, <1>2, <1>3, <1>4, <2>1 DEF Held, Batched, Queued, Sent, Overdue, Waits, Sound
    <3> QED
      BY <3>1, <3>2
  <2> QED
    BY <2>2 DEF Sound
<1> QED
  BY <1>5, <1>6, <1>7 DEF Inv

(* A batch is cut: its texts are the newest, whatever the queue holds. *)

LEMMA TicketTypes ==
  ASSUME TypeOK, batch # NoBatch
  PROVE  Ticket \in Tickets /\ BaseOf(Ticket) \in MaybeTexts
<1>1. batch \in [texts : MaybeTexts, by : Users] /\ \A f \in Fields : entry[f].version \in Nat
  BY DEF TypeOK, Entries
<1>2. [f \in Fields |-> IF Carries(batch.texts, f) /\ batch.by = user THEN entry[f].version ELSE 0]
        \in [Fields -> Nat]
  BY <1>1
<1>3. Ticket \in Tickets
  BY <1>1, <1>2 DEF Ticket, Tickets
<1>4. BaseOf(Ticket) \in MaybeTexts
  BY DEF BaseOf, MaybeTexts, TypeOK, Entries
<1> QED
  BY <1>3, <1>4

LEMMA FlushStep ==
  ASSUME Inv, Flush
  PROVE  Inv'
<1>1. /\ UNCHANGED <<stored, late, user, board, snap, entry, wire, bounds, known, typed, landed, revenant>>
      /\ queue' = Append(queue, Ticket) /\ batch' = NoBatch /\ batch # NoBatch
  BY DEF Flush, server, screen, history
<1>2. batch \in [texts : MaybeTexts, by : Users] /\ Ticket \in Tickets /\ queue \in Seq(Tickets)
  BY <1>1, TicketTypes DEF Inv, TypeOK
<1>3. /\ queue' \in Seq(Tickets) /\ queue' # <<>> /\ (queue # <<>> => queue'[1] = queue[1])
      /\ \A i \in DOMAIN queue' :
           \/ i \in DOMAIN queue /\ i \in Nat /\ i <= Len(queue) /\ queue'[i] = queue[i]
           \/ i = Len(queue) + 1 /\ queue'[i] = Ticket
  BY <1>1, <1>2, QueueAppend
<1>4. /\ Ticket.texts = batch.texts /\ Ticket.by = batch.by
      /\ \A f \in Fields : Ticket.versions[f]
                             = IF batch.texts[f] # None /\ batch.by = user THEN entry[f].version ELSE 0
  BY DEF Ticket, Carries
<1>5. TypeOK'
  BY <1>1, <1>3 DEF Inv, TypeOK
<1>6. Steady'
  <2>1. \A i \in DOMAIN queue' : \A f \in Fields : queue'[i].texts[f] = None => queue'[i].versions[f] = 0
    BY <1>3, <1>4 DEF Inv, Steady
  <2> QED
    BY <1>1, <1>3, <2>1 DEF Inv, Steady
<1>7. ASSUME ~revenant' PROVE Sound'
  <2>1. Sound /\ TypeOK /\ Steady
    BY <1>7, <1>1 DEF Inv
  <2>2. ASSUME NEW f \in Fields
        PROVE  (Seen(f) /\ Held(f) /\ Batched(f) /\ Queued(f) /\ Sent(f) /\ Overdue(f))'
    <3>1. Seen(f)' /\ Held(f)' /\ Overdue(f)'
      BY <1>1, <2>1 DEF Seen, Shown, Held, Overdue, Sound
    <3>2. Batched(f)'
      BY <1>1 DEF Batched, NoBatch, NoTexts
    <3>3. Sent(f)'
      BY <1>1, <1>3, <2>1 DEF Sent, Sound, Waits, Steady
    <3>4. entry[f].version \in Nat /\ \A i \in DOMAIN queue : queue[i].versions[f] \in Nat
      BY <2>1, QueuedTickets DEF TypeOK, Entries
    <3>5. Ticket.texts[f] # None =>
            /\ Ticket.texts[f] \in known[f]
            /\ Ticket.by = user =>
                 /\ entry[f].status = "pending" /\ Ticket.versions[f] = entry[f].version
                 /\ Ticket.versions[f] > 0 /\ Ticket.texts[f] = typed[f]
      BY <1>4, <2>1 DEF Batched, Sound, Steady
    <3>6. Waits(Ticket, f) => \A i \in DOMAIN queue : Waits(queue[i], f) =>
            queue[i].versions[f] < Ticket.versions[f]
      BY <1>4, <3>5, <2>1 DEF Queued, Sound, Waits
    <3>7. \A i \in DOMAIN queue :
            /\ queue[i].texts[f] # None => queue[i].texts[f] \in known[f]
            /\ Waits(queue[i], f) =>
                 /\ entry[f].status \in {"pending", "saving"}
                 /\ queue[i].versions[f] > 0 /\ queue[i].versions[f] <= entry[f].version
                 /\ queue[i].versions[f] = entry[f].version => queue[i].texts[f] = typed[f]
      BY <2>1 DEF Queued, Sound
    <3>8. \A i \in DOMAIN queue' :
            /\ queue'[i].texts[f] # None => queue'[i].texts[f] \in known[f]
            /\ Waits(queue'[i], f) =>
                 /\ entry[f].status \in {"pending", "saving"}
                 /\ queue'[i].versions[f] > 0 /\ queue'[i].versions[f] <= entry[f].version
                 /\ queue'[i].versions[f] = entry[f].version => queue'[i].texts[f] = typed[f]
      BY <1>3, <3>4, <3>5, <3>7 DEF Waits
    <3>9. \A i, j \in DOMAIN queue' :
            i < j /\ Waits(queue'[i], f) /\ Waits(queue'[j], f) => queue'[i].versions[f] < queue'[j].versions[f]
      <4>1. Len(queue) \in Nat
        BY <1>2, LenProperties
      <4>2. \A i, j \in DOMAIN queue :
              i < j /\ Waits(queue[i], f) /\ Waits(queue[j], f) => queue[i].versions[f] < queue[j].versions[f]
        BY <2>1 DEF Queued, Sound
      <4> QED
        BY <1>3, <3>6, <4>1, <4>2
    <3>10. Queued(f)'
      BY <3>8, <3>9, <1>1 DEF Queued, Waits, NoBatch, NoTexts
    <3> QED
      BY <3>1, <3>2, <3>3, <3>10
  <2> QED
    BY <2>2 DEF Sound
<1> QED
  BY <1>5, <1>6, <1>7 DEF Inv

(* The queue moves on by one. *)

LEMMA QueueMovesOn ==
  ASSUME TypeOK, queue # <<>>, queue' = Tail(queue), NEW f \in Fields,
         Queued(f), UNCHANGED <<user, batch>>, known[f] \subseteq known'[f],
         typed'[f] = typed[f], entry'[f].version = entry[f].version,
         \A i \in DOMAIN queue : i > 1 /\ Waits(queue[i], f) => entry'[f].status \in {"pending", "saving"}
  PROVE  Queued(f)'
<1>1. \A i \in DOMAIN queue' :
        i \in Nat /\ i > 0 /\ i + 1 \in DOMAIN queue /\ queue'[i] = queue[i + 1]
  BY QueueTail DEF TypeOK
<1>2. \A i \in DOMAIN queue' :
        /\ queue'[i].texts[f] # None => queue'[i].texts[f] \in known[f]
        /\ Waits(queue'[i], f) =>
             /\ entry'[f].status \in {"pending", "saving"}
             /\ queue'[i].versions[f] > 0 /\ queue'[i].versions[f] <= entry[f].version
             /\ queue'[i].versions[f] = entry[f].version => queue'[i].texts[f] = typed[f]
             /\ batch.texts[f] # None => queue'[i].versions[f] < entry[f].version
  BY <1>1 DEF Queued
<1>3. \A i, j \in DOMAIN queue' :
        i < j /\ Waits(queue'[i], f) /\ Waits(queue'[j], f)
          => queue'[i].versions[f] < queue'[j].versions[f]
  BY <1>1 DEF Queued
<1> QED
  BY <1>2, <1>3 DEF Queued, Waits

LEMMA SteadyMovesOn ==
  ASSUME TypeOK, queue # <<>>, queue' = Tail(queue), Steady
  PROVE  \A i \in DOMAIN queue' : \A f \in Fields :
           queue'[i].texts[f] = None => queue'[i].versions[f] = 0
<1>1. \A i \in DOMAIN queue' : i + 1 \in DOMAIN queue /\ queue'[i] = queue[i + 1]
  BY QueueTail DEF TypeOK
<1> QED
  BY <1>1 DEF Steady

(* The batch whose turn it is. *)

LEMMA Foremost ==
  ASSUME TypeOK, queue # <<>>
  PROVE  /\ Head(queue) = queue[1] /\ queue[1] \in Tickets /\ 1 \in DOMAIN queue
         /\ Tail(queue) \in Seq(Tickets)
  BY QueueTail DEF TypeOK

LEMMA LeavesStep ==
  ASSUME Inv, Leaves
  PROVE  Inv'
<1> DEFINE t == queue[1]
<1>1. /\ UNCHANGED <<stored, late, user, board, snap, batch, bounds, known, typed, landed, revenant>>
      /\ queue # <<>> /\ wire.at = "idle"
  BY DEF Leaves, Due, server, screen, history
<1>2. /\ Head(queue) = t /\ t \in Tickets /\ 1 \in DOMAIN queue /\ Tail(queue) \in Seq(Tickets)
      /\ t.versions \in [Fields -> Nat]
  BY <1>1, Foremost DEF Inv, Tickets
<1>3. CASE t.by = user
  <2>1. /\ wire' = [at |-> "out", base |-> BaseOf(t), field |-> None, other |-> None]
        /\ entry' = [f \in Fields |-> NoteSend(entry[f], t.versions[f])]
        /\ queue' = queue
    BY <1>2, <1>3 DEF Leaves, StillTheirs, PinnedVersion
  <2>2. BaseOf(t) \in MaybeTexts
    BY DEF BaseOf, MaybeTexts, Inv, TypeOK, Entries
  <2>3. entry' \in [Fields -> Entries]
    <3>1. ASSUME NEW f \in Fields PROVE NoteSend(entry[f], t.versions[f]) \in Entries
      <4>1. entry[f] \in Entries /\ t.versions[f] \in Nat
        BY <1>2 DEF Inv, TypeOK
      <4> QED
        BY <4>1 DEF Entries, NoteSend
    <3> QED
      BY <2>1, <3>1
  <2>4. \A f \in Fields :
          /\ entry'[f].version = entry[f].version /\ entry'[f].acked = entry[f].acked
          /\ entry'[f].draft = entry[f].draft /\ entry'[f].conflict = entry[f].conflict
          /\ entry[f].status = "none" => entry'[f] = entry[f]
          /\ \/ entry'[f].status = entry[f].status
             \/ /\ entry[f].status = "pending" /\ entry'[f].status = "saving"
                /\ t.versions[f] = entry[f].version /\ t.versions[f] # 0
    BY <2>1 DEF NoteSend
  <2>5. TypeOK'
    BY <1>1, <2>1, <2>2, <2>3 DEF Inv, TypeOK
  <2>6. Steady'
    <3>1. ASSUME NEW f \in Fields
          PROVE  /\ user' = None => entry'[f].status = "none"
                 /\ entry'[f].status = "none" => entry'[f] = NoEntry /\ typed'[f] = None /\ ~landed'[f]
                 /\ entry'[f].status # "none" => entry'[f].version > 0 /\ typed'[f] # None
      BY <1>1, <2>4 DEF Inv, Steady
    <3> QED
      BY <1>1, <2>1, <3>1 DEF Inv, Steady
  <2>7. ASSUME ~revenant', NEW f \in Fields
        PROVE  (Seen(f) /\ Held(f) /\ Batched(f) /\ Queued(f) /\ Sent(f) /\ Overdue(f))'
    <3>1. Sound /\ Steady /\ TypeOK
      BY <1>1, <2>7 DEF Inv
    <3>2. Seen(f)'
      BY <1>1, <2>4, <3>1 DEF Seen, Shown, Sound
    <3>3. Held(f)' /\ Overdue(f)'
      BY <1>1, <2>4, <3>1 DEF Held, Overdue, Sound
    <3>4. t.versions[f] # 0 => Waits(t, f)
      BY <1>2, <1>3, <3>1 DEF Waits, Steady
    <3>5. Batched(f)'
      <4>1. Waits(t, f) /\ batch.texts[f] # None => t.versions[f] < entry[f].version
        BY <1>2, <3>1 DEF Sound, Queued
      <4>2. t.versions[f] \in Nat /\ entry[f].version \in Nat
        BY <1>2, <3>1 DEF TypeOK, Entries
      <4> QED
        BY <1>1, <2>4, <3>1, <3>4, <4>1, <4>2 DEF Batched, Sound
    <3>6. Queued(f)'
      BY <1>1, <2>1, <2>4, <3>1 DEF Queued, Waits, Sound
    <3>7. Sent(f)'
      <4>1. t.texts[f] # None => Waits(t, f)
        BY <1>3 DEF Waits
      <4>2. Waits(t, f) => entry[f].status # "none" /\ t.versions[f] > 0
        BY <1>2, <3>1 DEF Queued, Sound
      <4>3. t.texts[f] # None => BaseOf(t)[f] = entry[f].acked /\ entry[f].acked \in known[f]
        BY <1>2, <1>3, <3>1, <4>1, <4>2 DEF BaseOf, Held, Sound
      <4> QED
        BY <1>1, <2>1, <4>3 DEF Sent
    <3> QED
      BY <3>2, <3>3, <3>5, <3>6, <3>7
  <2> QED
    BY <2>5, <2>6, <2>7 DEF Inv, Sound
<1>4. CASE t.by # user
  <2>1. queue' = Tail(queue) /\ UNCHANGED <<wire, entry>>
    BY <1>2, <1>4 DEF Leaves, StillTheirs
  <2>2. TypeOK'
    BY <1>1, <1>2, <2>1 DEF Inv, TypeOK
  <2>3. Steady'
    BY <1>1, <2>1, SteadyMovesOn DEF Inv, Steady
  <2>4. ASSUME ~revenant', NEW f \in Fields
        PROVE  (Seen(f) /\ Held(f) /\ Batched(f) /\ Queued(f) /\ Sent(f) /\ Overdue(f))'
    <3>1. Sound /\ TypeOK
      BY <1>1, <2>4 DEF Inv
    <3>2. (Seen(f) /\ Held(f) /\ Batched(f) /\ Overdue(f) /\ Sent(f))'
      BY <1>1, <2>1, <3>1 DEF Seen, Shown, Held, Batched, Overdue, Sent, Sound
    <3>3. \A i \in DOMAIN queue : Waits(queue[i], f) => entry'[f].status \in {"pending", "saving"}
      BY <2>1, <3>1 DEF Queued, Sound
    <3>4. Queued(f)'
      BY <1>1, <2>1, <3>1, <3>3, QueueMovesOn DEF Sound
    <3> QED
      BY <3>2, <3>4
  <2> QED
    BY <2>2, <2>3, <2>4 DEF Inv, Sound
<1> QED
  BY <1>3, <1>4

(* What happens at the server, and a board load. *)

LEMMA Untouched ==
  ASSUME NEW f \in Fields, UNCHANGED <<user, entry, batch, queue, typed>>,
         known[f] \subseteq known'[f], landed[f] => landed'[f]
  PROVE  /\ Held(f) => Held(f)'
         /\ Batched(f) => Batched(f)'
         /\ Queued(f) => Queued(f)'
  BY DEF Held, Batched, Queued, Waits

LEMMA StillSteady ==
  ASSUME Steady, UNCHANGED <<user, entry, batch, queue, typed>>,
         \A f \in Fields : landed'[f] => landed[f] \/ typed[f] # None,
         wire'.at # "idle" => wire.at # "idle"
  PROVE  Steady'
  BY DEF Steady

LEMMA WritesTypes ==
  ASSUME TypeOK, NEW texts \in MaybeTexts, Writes(texts)
  PROVE  /\ stored' \in [Fields -> Texts] /\ landed' \in [Fields -> BOOLEAN] /\ bounds' \in Counters
         /\ \A f \in Fields :
              /\ stored'[f] = IF texts[f] # None THEN texts[f] ELSE stored[f]
              /\ landed'[f] <=> landed[f] \/ (texts[f] # None /\ texts[f] = typed[f])
<1>1. bounds \in Counters /\ stored \in [Fields -> Texts]
  BY DEF TypeOK, Counters
<1>2. bounds' \in Counters
  BY <1>1, CountersRise DEF Writes
<1>3. \A f \in Fields : Merged(texts)[f] = IF texts[f] # None THEN texts[f] ELSE stored[f]
  BY DEF Merged
<1>4. Merged(texts) \in [Fields -> Texts]
  BY <1>1 DEF Merged, MaybeTexts
<1>5. landed' = [f \in Fields |-> landed[f] \/ (texts[f] # None /\ texts[f] = typed[f])]
  BY DEF Writes
<1>6. /\ landed' \in [Fields -> BOOLEAN]
      /\ \A f \in Fields : landed'[f] <=> landed[f] \/ (texts[f] # None /\ texts[f] = typed[f])
  BY <1>5 DEF TypeOK
<1> QED
  BY <1>2, <1>3, <1>4, <1>6 DEF Writes

LEMMA ServerTakesStep ==
  ASSUME Inv, ServerTakes
  PROVE  Inv'
<1> DEFINE t == queue[1]
<1>1. /\ UNCHANGED <<late, user, board, snap, entry, batch, queue, known, typed, revenant>>
      /\ wire.at = "out" /\ queue # <<>>
  BY DEF ServerTakes, screen, Inv, Steady
<1>2. Head(queue) = t /\ t \in Tickets /\ 1 \in DOMAIN queue /\ t.texts \in MaybeTexts
  BY <1>1, Foremost DEF Inv, Tickets
<1>3. CASE Clashes(t.texts, wire.base) = {}
  <2>1. /\ Writes(t.texts)
        /\ wire' = [at |-> "stored", base |-> wire.base, field |-> None, other |-> None]
    BY <1>2, <1>3 DEF ServerTakes
  <2>2. /\ stored' \in [Fields -> Texts] /\ landed' \in [Fields -> BOOLEAN] /\ bounds' \in Counters
        /\ \A f \in Fields :
             landed'[f] <=> landed[f] \/ (t.texts[f] # None /\ t.texts[f] = typed[f])
    BY <1>2, <2>1, WritesTypes DEF Inv
  <2>3. TypeOK'
    BY <1>1, <2>1, <2>2 DEF Inv, TypeOK, Counters
  <2>4. Steady'
    <3>1. \A f \in Fields : landed'[f] => landed[f] \/ typed[f] # None
      BY <2>2
    <3>2. wire.at # "idle" /\ Steady
      BY <1>1 DEF Inv
    <3> QED
      BY <1>1, <3>1, <3>2, StillSteady
  <2>5. ASSUME ~revenant', NEW f \in Fields
        PROVE  (Seen(f) /\ Held(f) /\ Batched(f) /\ Queued(f) /\ Sent(f) /\ Overdue(f))'
    <3>1. Sound
      BY <1>1, <2>5 DEF Inv
    <3>2. Held(f)' /\ Batched(f)' /\ Queued(f)'
      BY <1>1, <2>2, <3>1, Untouched DEF Sound
    <3>3. Seen(f)' /\ Overdue(f)'
      BY <1>1, <3>1 DEF Sound, Seen, Shown, Overdue
    <3>4. Waits(t, f) /\ t.versions[f] = entry[f].version => t.texts[f] = typed[f] /\ t.texts[f] # None
      BY <1>2, <3>1 DEF Queued, Sound, Waits
    <3>5. Sent(f)'
      BY <1>1, <2>1, <2>2, <3>1, <3>4 DEF Sent, Waits, Sound
    <3> QED
      BY <3>2, <3>3, <3>5
  <2> QED
    BY <2>3, <2>4, <2>5 DEF Inv, Sound
<1>4. CASE Clashes(t.texts, wire.base) # {}
  <2>1. /\ UNCHANGED <<stored, landed, bounds>>
        /\ \E f \in Clashes(t.texts, wire.base) :
             wire' = [at |-> "refused", base |-> wire.base, field |-> f, other |-> stored[f]]
    BY <1>2, <1>4 DEF ServerTakes
  <2>2. wire'.at = "refused" /\ wire'.base = wire.base
    BY <2>1
  <2>3. TypeOK'
    BY <1>1, <2>1 DEF Inv, TypeOK, Clashes
  <2>4. Steady'
    BY <1>1, <2>1, StillSteady DEF Inv
  <2>5. ASSUME ~revenant', NEW f \in Fields
        PROVE  (Seen(f) /\ Held(f) /\ Batched(f) /\ Queued(f) /\ Sent(f) /\ Overdue(f))'
    <3>1. Sound
      BY <1>1, <2>5 DEF Inv
    <3>2. Held(f)' /\ Batched(f)' /\ Queued(f)'
      BY <1>1, <2>1, <3>1, Untouched DEF Sound
    <3>3. Seen(f)' /\ Overdue(f)' /\ Sent(f)'
      BY <1>1, <2>1, <2>2, <3>1 DEF Sound, Seen, Shown, Overdue, Sent
    <3> QED
      BY <3>2, <3>3
  <2> QED
    BY <2>3, <2>4, <2>5 DEF Inv, Sound
<1> QED
  BY <1>3, <1>4

LEMMA Failing ==
  ASSUME TypeOK, MayFail
  PROVE  bounds' \in Counters
  BY CountersRise DEF TypeOK, MayFail, Counters

LEMMA ServerFailsStep ==
  ASSUME Inv, ServerFails
  PROVE  Inv'
<1>1. /\ UNCHANGED <<stored, late, user, board, snap, entry, batch, queue, known, typed, landed, revenant>>
      /\ wire' = [at |-> "error", base |-> wire.base, field |-> None, other |-> None]
      /\ wire.at = "out"
  BY DEF ServerFails, server, screen, history
<1>2. bounds' \in Counters
  BY Failing DEF ServerFails, Inv
<1>3. TypeOK'
  BY <1>1, <1>2 DEF Inv, TypeOK, Counters
<1>4. Steady'
  BY <1>1, StillSteady DEF Inv
<1>5. ASSUME ~revenant', NEW f \in Fields
      PROVE  (Seen(f) /\ Held(f) /\ Batched(f) /\ Queued(f) /\ Sent(f) /\ Overdue(f))'
  <2>1. Sound
    BY <1>1, <1>5 DEF Inv
  <2>2. Held(f)' /\ Batched(f)' /\ Queued(f)'
    BY <1>1, <2>1, Untouched DEF Sound
  <2>3. Seen(f)' /\ Overdue(f)' /\ Sent(f)'
    BY <1>1, <2>1 DEF Sound, Seen, Shown, Overdue, Sent
  <2> QED
    BY <2>2, <2>3
<1> QED
  BY <1>3, <1>4, <1>5 DEF Inv, Sound

LEMMA LateArrivesStep ==
  ASSUME Inv, NEW r \in late, LateArrives(r)
  PROVE  Inv'
<1>1. /\ UNCHANGED <<user, board, snap, entry, batch, queue, wire, known, typed, revenant>>
      /\ late' = late \ {r} /\ (Writes(r.texts) \/ UNCHANGED <<stored, landed, bounds>>)
  BY DEF LateArrives, screen, pipe
<1>2. r.texts \in MaybeTexts
  BY DEF Inv, TypeOK
<1>3. /\ stored' \in [Fields -> Texts] /\ landed' \in [Fields -> BOOLEAN] /\ bounds' \in Counters
      /\ \A f \in Fields :
           /\ landed[f] => landed'[f]
           /\ landed'[f] => landed[f] \/ typed[f] # None
  <2>1. CASE Writes(r.texts)
    BY <1>2, <2>1, WritesTypes DEF Inv
  <2>2. CASE UNCHANGED <<stored, landed, bounds>>
    BY <2>2 DEF Inv, TypeOK, Counters
  <2> QED
    BY <1>1, <2>1, <2>2
<1>4. TypeOK'
  BY <1>1, <1>3 DEF Inv, TypeOK, Counters
<1>5. Steady'
  BY <1>1, <1>3, StillSteady DEF Inv
<1>6. ASSUME ~revenant', NEW f \in Fields
      PROVE  (Seen(f) /\ Held(f) /\ Batched(f) /\ Queued(f) /\ Sent(f) /\ Overdue(f))'
  <2>1. Sound
    BY <1>1, <1>6 DEF Inv
  <2>2. Held(f)' /\ Batched(f)' /\ Queued(f)'
    BY <1>1, <1>3, <2>1, Untouched DEF Sound
  <2>3. Seen(f)' /\ Overdue(f)'
    BY <1>1, <2>1 DEF Sound, Seen, Shown, Overdue
  <2>4. Sent(f)'
    BY <1>1, <1>3, <2>1 DEF Sound, Sent, Waits
  <2> QED
    BY <2>2, <2>3, <2>4
<1> QED
  BY <1>4, <1>5, <1>6 DEF Inv, Sound

LEMMA LoadReadsStep ==
  ASSUME Inv, LoadReads
  PROVE  Inv'
<1>1. /\ UNCHANGED <<stored, late, user, board, entry, batch, queue, wire, bounds, known, typed, landed, revenant>>
      /\ snap' = stored
  BY DEF LoadReads, server, pipe, history
<1>2. TypeOK'
  BY <1>1 DEF Inv, TypeOK
<1>3. Steady'
  BY <1>1, StillSteady DEF Inv
<1>4. ASSUME ~revenant', NEW f \in Fields
      PROVE  (Seen(f) /\ Held(f) /\ Batched(f) /\ Queued(f) /\ Sent(f) /\ Overdue(f))'
  <2>1. Sound
    BY <1>1, <1>4 DEF Inv
  <2>2. Held(f)' /\ Batched(f)' /\ Queued(f)'
    BY <1>1, <2>1, Untouched DEF Sound
  <2>3. Seen(f)' /\ Overdue(f)' /\ Sent(f)'
    BY <1>1, <2>1 DEF Sound, Seen, Shown, Overdue, Sent, Waits
  <2> QED
    BY <2>2, <2>3
<1> QED
  BY <1>2, <1>3, <1>4 DEF Inv, Sound

LEMMA LoadPaintsStep ==
  ASSUME Inv, LoadPaints
  PROVE  Inv'
<1>1. /\ UNCHANGED <<stored, late, user, entry, batch, queue, wire, bounds, typed, landed, revenant>>
      /\ snap' = NoSnap /\ board' = snap /\ snap # NoSnap
  BY DEF LoadPaints, server, pipe
<1>2. board' \in [Fields -> Texts]
  BY <1>1 DEF Inv, TypeOK
<1>3. /\ known' \in [Fields -> SUBSET Texts]
      /\ \A f \in Fields : known[f] \subseteq known'[f] /\ Seen(f)'
  BY <1>1, <1>2, Remembering DEF Inv, TypeOK, LoadPaints
<1>4. TypeOK'
  BY <1>1, <1>2, <1>3 DEF Inv, TypeOK
<1>5. Steady'
  BY <1>1, StillSteady DEF Inv
<1>6. ASSUME ~revenant', NEW f \in Fields
      PROVE  (Seen(f) /\ Held(f) /\ Batched(f) /\ Queued(f) /\ Sent(f) /\ Overdue(f))'
  <2>1. Sound
    BY <1>1, <1>6 DEF Inv
  <2>2. Held(f)' /\ Batched(f)' /\ Queued(f)'
    BY <1>1, <1>3, <2>1, Untouched DEF Sound
  <2>3. Overdue(f)' /\ Sent(f)'
    BY <1>1, <1>3, <2>1 DEF Sound, Overdue, Sent, Waits
  <2> QED
    BY <1>3, <2>2, <2>3
<1> QED
  BY <1>4, <1>5, <1>6 DEF Inv, Sound

LEMMA SomebodyWritesStep ==
  ASSUME Inv, NEW f \in Fields, NEW t \in Texts, SomebodyWrites(f, t)
  PROVE  Inv'
<1>1. /\ UNCHANGED <<late, user, board, snap, entry, batch, queue, wire, known, typed, landed, revenant>>
      /\ bounds' = [bounds EXCEPT !.others = @ + 1]
      /\ stored' = [stored EXCEPT ![f] = t]
  BY DEF SomebodyWrites, screen, pipe, history
<1>2. bounds' \in Counters /\ stored' \in [Fields -> Texts]
  BY <1>1, CountersRise DEF Inv, TypeOK, Counters
<1>3. TypeOK'
  BY <1>1, <1>2 DEF Inv, TypeOK, Counters
<1>4. Steady'
  BY <1>1, StillSteady DEF Inv
<1>5. ASSUME ~revenant', NEW g \in Fields
      PROVE  (Seen(g) /\ Held(g) /\ Batched(g) /\ Queued(g) /\ Sent(g) /\ Overdue(g))'
  <2>1. Sound
    BY <1>1, <1>5 DEF Inv
  <2>2. Held(g)' /\ Batched(g)' /\ Queued(g)'
    BY <1>1, <2>1, Untouched DEF Sound
  <2>3. Seen(g)' /\ Overdue(g)' /\ Sent(g)'
    BY <1>1, <2>1 DEF Sound, Seen, Shown, Overdue, Sent, Waits
  <2> QED
    BY <2>2, <2>3
<1> QED
  BY <1>3, <1>4, <1>5 DEF Inv, Sound

(* The request of the foremost batch is answered or given up on. *)

LEMMA SettlesStep ==
  ASSUME Inv, NEW ok \in BOOLEAN, NEW field, NEW other \in Texts \cup {None},
         wire.at # "idle", ok => wire.at = "stored", Settles(ok, field, other),
         stored' = stored, bounds' \in Counters,
         \/ late' = late
         \/ wire.at = "out" /\ late' = late \cup {[texts |-> Head(queue).texts, base |-> wire.base]}
  PROVE  Inv'
<1> DEFINE t == queue[1]
           told(f) == IF f = field THEN other ELSE None
<1>1. /\ queue # <<>> /\ queue' = Tail(queue) /\ wire' = NoWire
      /\ UNCHANGED <<user, board, snap, batch, typed, landed, revenant>>
  BY DEF Settles, Behind, screen, Inv, Steady
<1>2. /\ Head(queue) = t /\ t \in Tickets /\ 1 \in DOMAIN queue /\ Tail(queue) \in Seq(Tickets)
      /\ t.texts \in MaybeTexts /\ t.by \in Users /\ t.versions \in [Fields -> Nat]
  BY <1>1, Foremost DEF Inv, Tickets
<1>3. entry' = [f \in Fields |-> IF t.by = user
                                 THEN NoteSettled(entry[f], t.versions[f], t.texts[f], ok, told(f))
                                 ELSE entry[f]]
  BY <1>2 DEF Settles, PinnedVersion
<1>4. \A f \in Fields : /\ t.versions[f] \in Nat /\ t.texts[f] \in Texts \cup {None}
                        /\ t.versions[f] # 0 => t.texts[f] # None
  BY <1>2 DEF MaybeTexts, Inv, Steady
<1>5. entry' \in [Fields -> Entries]
  <2>1. ASSUME NEW f \in Fields
        PROVE  NoteSettled(entry[f], t.versions[f], t.texts[f], ok, told(f)) \in Entries
    <3>1. entry[f] \in Entries /\ told(f) \in Texts \cup {None}
      BY DEF Inv, TypeOK
    <3>2. /\ t.versions[f] \in Nat /\ t.texts[f] \in Texts \cup {None}
          /\ ok /\ t.versions[f] # 0 => t.texts[f] \in Texts
      BY <1>4
    <3> HIDE DEF told, t
    <3> QED
      BY <3>1, <3>2, SettledTypes
  <2> QED
    BY <1>3, <2>1 DEF Inv, TypeOK
<1>6. /\ known' \in [Fields -> SUBSET Texts]
      /\ \A f \in Fields : known[f] \subseteq known'[f] /\ Seen(f)'
  BY <1>1, <1>5, Remembering DEF Inv, TypeOK, Settles
<1>7. ASSUME NEW f \in Fields
      PROVE  /\ entry'[f].version = entry[f].version
             /\ entry[f].status = "none" => entry'[f] = entry[f]
             /\ entry[f].status # "none" => entry'[f].status # "none"
             /\ \/ entry'[f] = entry[f]
                \/ /\ t.by = user /\ t.versions[f] # 0 /\ entry[f].status # "none"
                   /\ entry'[f].acked = IF ok THEN t.texts[f] ELSE entry[f].acked
                   /\ \/ /\ entry'[f].status = entry[f].status /\ entry'[f].draft = entry[f].draft
                         /\ entry'[f].conflict = entry[f].conflict
                      \/ /\ entry[f].version = t.versions[f] /\ ok /\ entry'[f].status = "saved"
                         /\ entry'[f].draft = None /\ entry'[f].conflict = None
                      \/ /\ entry[f].version = t.versions[f] /\ ~ok /\ entry'[f].status = "failed"
                         /\ entry'[f].draft = entry[f].draft
                         /\ entry'[f].conflict \in {told(f), entry[f].conflict}
  BY <1>3 DEF NoteSettled, Decides
<1>8. late' \subseteq [texts : MaybeTexts, base : MaybeTexts]
  BY <1>2 DEF Inv, TypeOK
<1>9. TypeOK'
  BY <1>1, <1>2, <1>5, <1>6, <1>8 DEF Inv, TypeOK, Counters, NoWire, NoTexts, MaybeTexts
<1>10. Steady'
  <2>1. \A i \in DOMAIN queue' : \A f \in Fields :
           queue'[i].texts[f] = None => queue'[i].versions[f] = 0
    BY <1>1, SteadyMovesOn DEF Inv
  <2>2. ASSUME NEW f \in Fields
        PROVE  /\ user' = None => entry'[f].status = "none"
               /\ entry'[f].status = "none" => entry'[f] = NoEntry /\ typed'[f] = None /\ ~landed'[f]
               /\ entry'[f].status # "none" => entry'[f].version > 0 /\ typed'[f] # None
    BY <1>1, <1>7 DEF Inv, Steady
  <2> QED
    BY <1>1, <2>1, <2>2 DEF Inv, Steady, NoWire
<1>11. ASSUME ~revenant', NEW f \in Fields
       PROVE  (Seen(f) /\ Held(f) /\ Batched(f) /\ Queued(f) /\ Sent(f) /\ Overdue(f))'
  <2>1. Sound /\ TypeOK /\ Steady
    BY <1>1, <1>11 DEF Inv
  <2>2. t.by = user /\ t.versions[f] # 0 => Waits(t, f)
    BY <1>4 DEF Waits
  <2>3. /\ t.texts[f] # None => t.texts[f] \in known[f] /\ wire.base[f] \in known[f]
        /\ Waits(t, f) => entry[f].status \in {"pending", "saving"} /\ t.versions[f] <= entry[f].version
    BY <1>2, <2>1 DEF Queued, Sent, Sound
  <2>4. entry[f].status # "none" =>
          /\ entry[f].acked \in known'[f] /\ entry[f].conflict \in known'[f] \cup {None}
    BY <1>6, <2>1 DEF Held, Sound
  <2>5. Held(f)'
    <3>1. CASE entry'[f] = entry[f]
      BY <3>1, <1>1, <2>1, <2>4 DEF Held, Sound
    <3>2. CASE /\ t.by = user /\ t.versions[f] # 0 /\ entry[f].status # "none"
               /\ entry'[f].acked = IF ok THEN t.texts[f] ELSE entry[f].acked
      <4>1. entry'[f].acked \in known'[f]
        BY <3>2, <2>2, <2>3, <2>4, <1>6 DEF Waits
      <4>2. entry[f].draft = typed[f] /\ typed[f] # None /\ user # None
        BY <3>2, <2>1, <2>2, <2>3 DEF Held, Sound, Steady
      <4>3. CASE /\ entry'[f].status = entry[f].status /\ entry'[f].draft = entry[f].draft
                 /\ entry'[f].conflict = entry[f].conflict
        BY <4>1, <4>2, <4>3, <2>2, <2>3, <2>4, <3>2, <1>1 DEF Held
      <4>4. CASE /\ entry[f].version = t.versions[f] /\ ok /\ entry'[f].status = "saved"
                 /\ entry'[f].draft = None /\ entry'[f].conflict = None
        <5>1. landed[f]
          BY <4>4, <3>2, <2>1, <2>2 DEF Sent, Sound
        <5> QED
          BY <4>1, <4>4, <5>1, <1>1 DEF Held
      <4>5. CASE /\ entry[f].version = t.versions[f] /\ ~ok /\ entry'[f].status = "failed"
                 /\ entry'[f].draft = entry[f].draft
                 /\ entry'[f].conflict \in {told(f), entry[f].conflict}
        <5>1. entry'[f].conflict # None => entry'[f].conflict \in known'[f]
          BY <4>2, <4>5, <1>1, <1>6 DEF Seen, Shown
        <5> QED
          BY <4>1, <4>2, <4>5, <5>1, <1>1 DEF Held
      <4> QED
        BY <1>7, <3>2, <4>3, <4>4, <4>5, <2>4, <1>1, <2>1 DEF Held, Sound
    <3> QED
      BY <1>7, <3>1, <3>2
  <2>6. \A i \in DOMAIN queue : i > 1 /\ Waits(queue[i], f) => entry'[f].status \in {"pending", "saving"}
    <3>1. ASSUME NEW i \in DOMAIN queue, i > 1, Waits(queue[i], f)
          PROVE  entry'[f].status \in {"pending", "saving"}
      <4>1. entry[f].status \in {"pending", "saving"} /\ queue[i].versions[f] <= entry[f].version
        BY <3>1, <2>1 DEF Queued, Sound
      <4>2. Waits(t, f) => t.versions[f] < queue[i].versions[f]
        BY <3>1, <2>1, <1>2 DEF Queued, Sound
      <4>3. queue[i].versions[f] \in Nat /\ t.versions[f] \in Nat /\ entry[f].version \in Nat
        BY <2>1, <1>4, QueuedTickets DEF TypeOK, Entries
      <4>4. Waits(t, f) => t.versions[f] # entry[f].version
        BY <4>1, <4>2, <4>3
      <4> QED
        BY <4>1, <4>4, <2>2, <1>7
    <3> QED
      BY <3>1
  <2>7. Batched(f)'
    <3>1. Waits(t, f) /\ batch.texts[f] # None => t.versions[f] < entry[f].version
      BY <1>2, <2>1 DEF Sound, Queued
    <3>2. t.versions[f] \in Nat /\ entry[f].version \in Nat
      BY <1>4, <2>1 DEF TypeOK, Entries
    <3>3. batch.texts[f] # None => entry'[f].status = entry[f].status
      BY <3>1, <3>2, <2>2, <1>7
    <3> QED
      BY <3>3, <1>1, <1>6, <2>1 DEF Batched, Sound
  <2>8. Queued(f)'
    BY <1>1, <1>6, <1>7, <2>1, <2>6, QueueMovesOn DEF Sound
  <2>9. Sent(f)'
    BY <1>1 DEF Sent, NoWire
  <2>10. Overdue(f)'
    BY <1>2, <1>6, <2>1, <2>3 DEF Overdue, Sound
  <2> QED
    BY <1>6, <2>5, <2>7, <2>8, <2>9, <2>10
<1> QED
  BY <1>9, <1>10, <1>11 DEF Inv, Sound

LEMMA AnsweredStep ==
  ASSUME Inv, Answered
  PROVE  Inv'
<1>1. wire.at \in {"stored", "refused", "error"} /\ Settles(wire.at = "stored", wire.field, wire.other)
  BY DEF Answered
<1>2. (wire.at = "stored") \in BOOLEAN /\ wire.other \in Texts \cup {None} /\ bounds' \in Counters
  BY DEF Inv, TypeOK, Counters, Answered
<1>3. stored' = stored /\ late' = late
  BY DEF Answered, server
<1> QED
  BY <1>1, <1>2, <1>3, SettlesStep

LEMMA UnansweredStep ==
  ASSUME Inv, Unanswered
  PROVE  Inv'
<1>1. wire.at \in {"out", "stored", "refused"} /\ Settles(FALSE, None, None)
  BY DEF Unanswered
<1>2. bounds' \in Counters /\ stored' = stored
  BY Failing DEF Inv, Unanswered
<1>3. \/ late' = late
      \/ wire.at = "out" /\ late' = late \cup {[texts |-> Head(queue).texts, base |-> wire.base]}
  BY DEF Unanswered
<1> QED
  BY <1>1, <1>2, <1>3, SettlesStep

(* The session. *)

LEMMA SignsOutStep ==
  ASSUME Inv, SignsOut
  PROVE  Inv'
<1>1. /\ UNCHANGED <<stored, late, board, snap, batch, queue, wire, bounds, known, revenant>>
      /\ user' = None /\ entry' = NoEntries /\ typed' = NoTexts /\ landed' = [f \in Fields |-> FALSE]
  BY DEF SignsOut, server, screen, pipe
<1>2. \A f \in Fields : entry'[f] = NoEntry /\ typed'[f] = None /\ ~landed'[f]
  BY <1>1 DEF NoEntries, NoTexts
<1>3. TypeOK'
  BY <1>1, EntryTypes DEF Inv, TypeOK, NoEntries, NoEntry, Entries, NoTexts, MaybeTexts
<1>4. Steady'
  BY <1>1, <1>2 DEF Inv, Steady, NoEntry
<1>5. ASSUME ~revenant', NEW f \in Fields
      PROVE  (Seen(f) /\ Held(f) /\ Batched(f) /\ Queued(f) /\ Sent(f) /\ Overdue(f))'
  <2>1. Sound /\ TypeOK /\ Steady
    BY <1>1, <1>5 DEF Inv
  <2>2. \A i \in DOMAIN queue : queue[i].by \in Users
    BY <2>1, QueuedTickets DEF Tickets
  <2>3. Seen(f)' /\ Held(f)' /\ Overdue(f)'
    BY <1>1, <1>2, <2>1 DEF Seen, Shown, Held, NoEntry, Overdue, Sound
  <2>4. Batched(f)'
    BY <1>1, <2>1, NoneAssumption DEF Batched, Sound, TypeOK, NoBatch, NoTexts
  <2>5. Queued(f)'
    BY <1>1, <2>1, <2>2, NoneAssumption DEF Queued, Waits, Sound
  <2>6. Sent(f)'
    <3>1. wire.at # "idle" => 1 \in DOMAIN queue
      BY <2>1, Foremost DEF Steady
    <3> QED
      BY <1>1, <2>1, <2>2, <3>1, NoneAssumption DEF Sent, Waits, Sound
  <2> QED
    BY <2>3, <2>4, <2>5, <2>6
<1> QED
  BY <1>3, <1>4, <1>5 DEF Inv, Sound

LEMMA SignsInStep ==
  ASSUME Inv, NEW u \in Users, SignsIn(u)
  PROVE  Inv'
<1>1. /\ UNCHANGED <<stored, late, board, snap, entry, batch, queue, wire, typed, landed>>
      /\ user = None /\ user' = u /\ batch = NoBatch
      /\ bounds' = [bounds EXCEPT !.logins = @ + 1]
      /\ revenant' = (revenant \/ \E i \in DOMAIN queue : queue[i].by = u)
  BY DEF SignsIn, server, screen, pipe
<1>2. bounds' \in Counters
  BY <1>1, CountersRise DEF Inv, TypeOK, Counters
<1>3. /\ known' \in [Fields -> SUBSET Texts]
      /\ \A f \in Fields : known[f] \subseteq known'[f] /\ Seen(f)'
  BY <1>1, Remembering DEF Inv, TypeOK, SignsIn
<1>4. TypeOK'
  BY <1>1, <1>2, <1>3 DEF Inv, TypeOK, Counters
<1>5. \A f \in Fields : entry[f].status = "none" /\ entry[f] = NoEntry
  BY <1>1 DEF Inv, Steady
<1>6. Steady'
  BY <1>1, <1>5 DEF Inv, Steady
<1>7. ASSUME ~revenant', NEW f \in Fields
      PROVE  (Seen(f) /\ Held(f) /\ Batched(f) /\ Queued(f) /\ Sent(f) /\ Overdue(f))'
  <2>1. Sound /\ TypeOK /\ Steady /\ \A i \in DOMAIN queue : queue[i].by # u
    BY <1>1, <1>7 DEF Inv
  <2>2. Held(f)' /\ Batched(f)' /\ Overdue(f)'
    BY <1>1, <1>3, <1>5, <2>1 DEF Held, Batched, NoBatch, NoTexts, Overdue, Sound
  <2>3. Queued(f)'
    BY <1>1, <1>3, <2>1 DEF Queued, Waits, Sound
  <2>4. Sent(f)'
    <3>1. wire.at # "idle" => 1 \in DOMAIN queue
      BY <2>1, Foremost DEF Steady
    <3> QED
      BY <1>1, <1>3, <2>1, <3>1 DEF Sent, Waits, Sound
  <2> QED
    BY <1>3, <2>2, <2>3, <2>4
<1> QED
  BY <1>4, <1>6, <1>7 DEF Inv, Sound

LEMMA ReloadStep ==
  ASSUME Inv, Reload
  PROVE  Inv'
<1>1. /\ UNCHANGED <<stored, user, revenant>>
      /\ bounds' = [bounds EXCEPT !.reloads = @ + 1]
      /\ late' \subseteq late \cup Departing
      /\ board' = stored /\ snap' = NoSnap /\ entry' = NoEntries
      /\ batch' = NoBatch /\ queue' = <<>> /\ wire' = NoWire
      /\ typed' = NoTexts /\ landed' = [f \in Fields |-> FALSE]
  BY DEF Reload
<1>2. \A f \in Fields : entry'[f] = NoEntry /\ typed'[f] = None /\ ~landed'[f]
  BY <1>1 DEF NoEntries, NoTexts
<1>3. entry' \in [Fields -> Entries] /\ board' \in [Fields -> Texts] /\ bounds' \in Counters
  BY <1>1, CountersRise DEF Inv, TypeOK, NoEntries, NoEntry, Entries, Counters
<1>4. /\ known' \in [Fields -> SUBSET Texts]
      /\ \A f \in Fields : known[f] \subseteq known'[f] /\ Seen(f)'
  BY <1>1, <1>3, Remembering DEF Inv, TypeOK, Reload
<1>6. ASSUME NEW r \in Departing
      PROVE  /\ r \in [texts : MaybeTexts, base : MaybeTexts]
             /\ Sound => \A f \in Fields : r.texts[f] # None => r.base[f] \in known[f] /\ r.texts[f] \in known[f]
  <2>1. CASE queue # <<>>
    <3>1. /\ wire.at = "out" /\ r = [texts |-> queue[1].texts, base |-> wire.base]
          /\ queue[1] \in Tickets /\ 1 \in DOMAIN queue
      BY <2>1, Foremost DEF Departing, Inv
    <3>2. r \in [texts : MaybeTexts, base : MaybeTexts]
      BY <3>1 DEF Tickets, Inv, TypeOK
    <3>3. Sound => \A f \in Fields : r.texts[f] # None => r.base[f] \in known[f] /\ r.texts[f] \in known[f]
      BY <3>1 DEF Sound, Sent, Queued
    <3> QED
      BY <3>2, <3>3
  <2>2. CASE queue = <<>>
    <3>1. /\ batch # NoBatch /\ batch.by = user /\ r = [texts |-> batch.texts, base |-> BaseOf(Ticket)]
      BY <2>2 DEF Departing, Inv, Steady
    <3>2. Ticket \in Tickets /\ BaseOf(Ticket) \in MaybeTexts /\ batch \in [texts : MaybeTexts, by : Users]
      BY <3>1, TicketTypes DEF Inv, TypeOK
    <3>3. ASSUME Sound, NEW f \in Fields, r.texts[f] # None
          PROVE  r.base[f] \in known[f] /\ r.texts[f] \in known[f]
      <4>1. batch.texts[f] \in known[f] /\ entry[f].status = "pending"
        BY <3>1, <3>3 DEF Sound, Batched
      <4>2. entry[f].acked \in known[f] /\ entry[f].version > 0 /\ entry[f].version \in Nat
        BY <4>1, <3>3 DEF Sound, Held, Inv, Steady, TypeOK, Entries
      <4>3. Ticket.versions[f] # 0 /\ Ticket.by = user
        BY <3>1, <3>3, <4>2 DEF Ticket, Carries
      <4> QED
        BY <3>1, <4>1, <4>2, <4>3 DEF BaseOf
    <3> QED
      BY <3>1, <3>2, <3>3
  <2> QED
    BY <2>1, <2>2
<1>7. TypeOK'
  <2>1. late' \subseteq [texts : MaybeTexts, base : MaybeTexts]
    BY <1>1, <1>6 DEF Inv, TypeOK
  <2>2. queue' \in Seq(Tickets)
    BY <1>1, EmptySeq
  <2> QED
    BY <1>1, <1>3, <1>4, <2>1, <2>2 DEF Inv, TypeOK, Counters, NoWire, NoTexts, MaybeTexts
<1>8. Steady'
  BY <1>1, <1>2 DEF Steady, NoEntry, NoWire
<1>9. ASSUME ~revenant', NEW f \in Fields
      PROVE  (Seen(f) /\ Held(f) /\ Batched(f) /\ Queued(f) /\ Sent(f) /\ Overdue(f))'
  <2>1. Sound
    BY <1>1, <1>9 DEF Inv
  <2>2. Held(f)' /\ Batched(f)' /\ Queued(f)' /\ Sent(f)'
    BY <1>1, <1>2 DEF Held, Batched, Queued, Sent, NoEntry, NoBatch, NoTexts, NoWire
  <2>3. Overdue(f)'
    BY <1>1, <1>4, <1>6, <2>1 DEF Overdue, Sound
  <2> QED
    BY <1>4, <2>2, <2>3
<1> QED
  BY <1>7, <1>8, <1>9 DEF Inv, Sound
-----------------------------------------------------------------------------
LEMMA InitStep ==
  ASSUME Init
  PROVE  Inv
<1>1. /\ stored = [f \in Fields |-> Blank] /\ board = stored /\ snap = NoSnap /\ late = {} /\ user = None
      /\ entry = NoEntries /\ batch = NoBatch /\ queue = <<>> /\ wire = NoWire
      /\ known = [f \in Fields |-> {}] /\ typed = NoTexts /\ landed = [f \in Fields |-> FALSE]
      /\ revenant = FALSE
  BY DEF Init
<1>2. bounds \in Counters
  BY DEF Init, Counters
<1>3. queue \in Seq(Tickets)
  BY <1>1, EmptySeq
<1>4. TypeOK
  BY <1>1, <1>2, <1>3, BlankAssumption
  DEF TypeOK, NoEntries, NoEntry, Entries, Counters, NoWire, NoTexts, MaybeTexts
<1>5. \A f \in Fields : entry[f] = NoEntry /\ typed[f] = None /\ ~landed[f]
  BY <1>1 DEF NoEntries, NoTexts
<1>6. Steady
  BY <1>1, <1>5 DEF Steady, NoEntry, NoWire
<1>7. Sound
  <2>1. ASSUME NEW f \in Fields
        PROVE  Seen(f) /\ Held(f) /\ Batched(f) /\ Queued(f) /\ Sent(f) /\ Overdue(f)
    <3>1. Seen(f) /\ Held(f) /\ Sent(f) /\ Overdue(f)
      BY <1>1, <1>5 DEF Seen, Shown, Held, Sent, Overdue, NoEntry, NoWire
    <3>2. Batched(f) /\ Queued(f)
      BY <1>1 DEF Batched, Queued, NoBatch, NoTexts
    <3> QED
      BY <3>1, <3>2
  <2> QED
    BY <2>1 DEF Sound
<1> QED
  BY <1>4, <1>6, <1>7 DEF Inv

LEMMA EditStep ==
  ASSUME Inv, NEW f \in Fields, NEW text \in Texts, Edit(f, text)
  PROVE  Inv'
<1>1. user # None /\ Enter(f, text, entry[f])
  BY DEF Edit
<1>2. entry[f] \in Entries
  BY DEF Inv, TypeOK
<1>3. ~revenant /\ entry[f].draft # None =>
        entry[f].acked \in known[f] /\ entry[f].conflict \in known[f] \cup {None}
  BY DEF Inv, Steady, Sound, Held, NoEntry
<1> QED
  BY <1>1, <1>2, <1>3, EnterStep

LEMMA KeepMineStep ==
  ASSUME Inv, NEW f \in Fields, KeepMine(f)
  PROVE  /\ Inv' /\ user # None /\ entry[f].draft \in Texts
         /\ \E e \in Entries : Enter(f, entry[f].draft, e)
<1> DEFINE e == [entry[f] EXCEPT !.acked = entry[f].conflict, !.conflict = None]
<1>1. /\ user # None /\ entry[f].draft # None /\ entry[f].conflict # None /\ entry[f].status = "failed"
      /\ Enter(f, entry[f].draft, e)
  BY DEF KeepMine, Asked
<1>2. entry[f] \in Entries
  BY DEF Inv, TypeOK
<1>3. /\ e \in Entries /\ e.version = entry[f].version /\ e.draft = entry[f].draft
      /\ e.acked = entry[f].conflict /\ e.conflict = None /\ entry[f].draft \in Texts
  BY <1>1, <1>2 DEF Entries
<1>4. ~revenant => entry[f].conflict \in known[f]
  BY <1>1 DEF Inv, Sound, Held
<1> HIDE DEF e
<1> QED
  BY <1>1, <1>3, <1>4, EnterStep

LEMMA Idle ==
  ASSUME Inv, UNCHANGED vars
  PROVE  Inv'
<1>1. UNCHANGED <<stored, late, user, board, snap, entry, batch, queue, wire, bounds,
                  known, typed, landed, revenant>>
  BY DEF vars, server, screen, pipe, history
<1>2. TypeOK'
  BY <1>1 DEF Inv, TypeOK
<1>3. Steady'
  BY <1>1 DEF Inv, Steady
<1>4. ASSUME NEW f \in Fields
      PROVE  /\ Seen(f)' <=> Seen(f)
             /\ Held(f)' <=> Held(f)
             /\ Batched(f)' <=> Batched(f)
             /\ Queued(f)' <=> Queued(f)
             /\ Sent(f)' <=> Sent(f)
             /\ Overdue(f)' <=> Overdue(f)
  <2>1. Seen(f)' <=> Seen(f)
    BY <1>1 DEF Seen, Shown
  <2>2. Held(f)' <=> Held(f)
    BY <1>1 DEF Held
  <2>3. Batched(f)' <=> Batched(f)
    BY <1>1 DEF Batched
  <2>4. Queued(f)' <=> Queued(f)
    BY <1>1 DEF Queued, Waits
  <2>5. (Sent(f)' <=> Sent(f)) /\ (Overdue(f)' <=> Overdue(f))
    BY <1>1 DEF Sent, Overdue, Waits
  <2> QED
    BY <2>1, <2>2, <2>3, <2>4, <2>5
<1> QED
  BY <1>1, <1>2, <1>3, <1>4 DEF Inv, Sound

(* What the fields of the browser and the server's columns obey, always. *)
THEOREM Invariance == Spec => []Inv
<1>1. Init => Inv
  BY InitStep
<1>2. ASSUME Inv, [Next]_vars PROVE Inv'
  <2>1. ASSUME NEW f \in Fields, KeepMine(f) PROVE Inv'
    BY <1>2, <2>1, KeepMineStep
  <2>2. ASSUME NEW f \in Fields, TakeTheirs(f) PROVE Inv'
    BY <1>2, <2>2, TakeTheirsStep
  <2>3. ASSUME NEW f \in Fields, NEW text \in Texts, Edit(f, text) PROVE Inv'
    BY <1>2, <2>3, EditStep
  <2>4. ASSUME NEW u \in Users, SignsIn(u) PROVE Inv'
    BY <1>2, <2>4, SignsInStep
  <2>5. ASSUME NEW r \in late, LateArrives(r) PROVE Inv'
    BY <1>2, <2>5, LateArrivesStep
  <2>6. ASSUME NEW f \in Fields, NEW text \in Texts, SomebodyWrites(f, text) PROVE Inv'
    BY <1>2, <2>6, SomebodyWritesStep
  <2>7. CASE SignsOut
    BY <1>2, <2>7, SignsOutStep
  <2>8. CASE Reload
    BY <1>2, <2>8, ReloadStep
  <2>9. CASE Flush
    BY <1>2, <2>9, FlushStep
  <2>10. CASE Answered
    BY <1>2, <2>10, AnsweredStep
  <2>11. CASE Unanswered
    BY <1>2, <2>11, UnansweredStep
  <2>12. CASE LoadReads
    BY <1>2, <2>12, LoadReadsStep
  <2>13. CASE LoadPaints
    BY <1>2, <2>13, LoadPaintsStep
  <2>14. CASE Leaves
    BY <1>2, <2>14, LeavesStep
  <2>15. CASE ServerTakes
    BY <1>2, <2>15, ServerTakesStep
  <2>16. CASE ServerFails
    BY <1>2, <2>16, ServerFailsStep
  <2>17. CASE UNCHANGED vars
    BY <1>2, <2>17, Idle
  <2> QED
    BY <1>2, <2>1, <2>2, <2>3, <2>4, <2>5, <2>6, <2>7, <2>8, <2>9, <2>10, <2>11, <2>12,
       <2>13, <2>14, <2>15, <2>16, <2>17 DEF Next, Typing, Session
<1> QED
  BY <1>1, <1>2, PTL DEF Spec

(* Entries, batches, requests and columns have their types. *)
THEOREM TypeCorrect == Spec => []TypeOK
<1>1. Inv => TypeOK
  BY DEF Inv
<1> QED
  BY <1>1, Invariance, PTL

(* «Gespeichert» is said only of a text the server has taken and behind     *)
(* which nothing newer is on its way, short of the returning user.          *)
THEOREM SavedCorrect == Spec => []SavedIsStored
<1>1. Inv => SavedIsStored
  <2> SUFFICES ASSUME Inv, ~revenant, NEW f \in Fields, entry[f].status = "saved"
               PROVE  landed[f] /\ ~UnderWay(f)
    BY DEF SavedIsStored, SavedMeansStored
  <2>1. landed[f] /\ user # None
    BY DEF Inv, Sound, Held, Steady
  <2>2. ~Carries(batch.texts, f)
    BY <2>1 DEF Carries, Inv, Sound, Batched, Steady, NoBatch, NoTexts
  <2>3. \A i \in DOMAIN queue : ~(queue[i].by = user /\ Carries(queue[i].texts, f))
    BY DEF Carries, Inv, Sound, Queued, Waits
  <2> QED
    BY <2>1, <2>2, <2>3 DEF UnderWay
<1> QED
  BY <1>1, Invariance, PTL

(* What was typed last is kept as the draft until the server has taken it.  *)
THEOREM DraftCorrect == Spec => []DraftIsKept
<1>1. Inv => DraftIsKept
  BY DEF Inv, Sound, Held, Steady, DraftIsKept
<1> QED
  BY <1>1, Invariance, PTL
-----------------------------------------------------------------------------
(* A text that may replace another. *)

LEMMA NoClash ==
  ASSUME TypeOK, NEW texts \in MaybeTexts, NEW base \in MaybeTexts,
         Clashes(texts, base) = {}, Writes(texts), NEW f \in Fields,
         texts[f] # None => base[f] \in known[f]
  PROVE  \/ texts[f] = None /\ stored'[f] = stored[f] /\ (landed'[f] <=> landed[f])
         \/ /\ texts[f] \in Texts /\ stored'[f] = texts[f]
            /\ stored[f] \in known[f] \cup {texts[f]}
            /\ landed'[f] <=> landed[f] \/ typed[f] = texts[f]
<1>1. /\ stored'[f] = IF texts[f] # None THEN texts[f] ELSE stored[f]
      /\ landed'[f] <=> landed[f] \/ (texts[f] # None /\ texts[f] = typed[f])
  BY WritesTypes
<1>2. base[f] = None \/ stored[f] = base[f] \/ stored[f] = texts[f]
  BY DEF Clashes
<1>3. texts[f] # None => base[f] # None /\ texts[f] \in Texts
  BY NoneAssumption DEF TypeOK, MaybeTexts
<1> QED
  BY <1>1, <1>2, <1>3

(* One step of the server with a request of this browser. *)

LEMMA Takes ==
  ASSUME Inv, NEW f \in Fields, ServerTakes \/ \E r \in late : LateArrives(r)
  PROVE  /\ UNCHANGED <<user, entry, known, typed, revenant>>
         /\ \/ bounds' = bounds /\ (revenant => stored' = stored /\ landed' = landed)
            \/ revenant /\ bounds'.others = bounds.others + 1
         /\ landed[f] => landed'[f]
         /\ ~revenant =>
              \/ stored'[f] = stored[f] /\ (landed'[f] <=> landed[f])
              \/ \E t \in Texts :
                   /\ stored'[f] = t /\ t \in known[f] /\ stored[f] \in known[f] \cup {t}
                   /\ landed'[f] <=> landed[f] \/ typed[f] = t
<1> DEFINE Taken(texts, base) ==
             IF Clashes(texts, base) = {} THEN Writes(texts) ELSE UNCHANGED <<stored, landed, bounds>>
           Seldom(texts, base) ==
             /\ texts \in MaybeTexts /\ base \in MaybeTexts
             /\ ~revenant /\ texts[f] # None => base[f] \in known[f] /\ texts[f] \in known[f]
<1>1. /\ UNCHANGED <<user, entry, known, typed, revenant>>
      /\ \E texts, base : Seldom(texts, base) /\ Taken(texts, base)
  <2>1. CASE ServerTakes
    <3>1. queue # <<>> /\ wire.at = "out"
      BY <2>1 DEF ServerTakes, Inv, Steady
    <3>2. Head(queue) = queue[1] /\ 1 \in DOMAIN queue /\ queue[1] \in Tickets
      BY <3>1, Foremost DEF Inv
    <3>3. Seldom(queue[1].texts, wire.base)
      BY <3>1, <3>2 DEF Tickets, Inv, TypeOK, Sound, Sent, Queued
    <3>4. Taken(queue[1].texts, wire.base) /\ UNCHANGED <<user, entry, known, typed, revenant>>
      BY <2>1, <3>2 DEF ServerTakes
    <3> QED
      BY <3>3, <3>4
  <2>2. ASSUME NEW r \in late, LateArrives(r)
        PROVE  /\ UNCHANGED <<user, entry, known, typed, revenant>>
               /\ \E texts, base : Seldom(texts, base) /\ Taken(texts, base)
    <3>1. Seldom(r.texts, r.base)
      BY DEF Inv, TypeOK, Sound, Overdue
    <3>2. Taken(r.texts, r.base) /\ UNCHANGED <<user, entry, known, typed, revenant>>
      BY <2>2 DEF LateArrives
    <3> QED
      BY <3>1, <3>2
  <2> QED
    BY <2>1, <2>2
<1>2. PICK texts, base : Seldom(texts, base) /\ Taken(texts, base)
  BY <1>1
<1>5. UNCHANGED <<user, entry, known, typed, revenant>>
  BY <1>1
<1>3. CASE UNCHANGED <<stored, landed, bounds>>
  <2>1. stored'[f] = stored[f] /\ (landed'[f] <=> landed[f]) /\ bounds' = bounds
    BY <1>3
  <2>2. stored' = stored /\ landed' = landed
    BY <1>3
  <2> QED
    BY <1>5, <2>1, <2>2
<1>4. CASE Clashes(texts, base) = {} /\ Writes(texts)
  <2>1. (~revenant /\ bounds' = bounds) \/ (revenant /\ bounds'.others = bounds.others + 1)
    <3>1. bounds \in Counters
      BY DEF Inv, TypeOK, Counters
    <3>2. [bounds EXCEPT !.others = @ + 1].others = bounds.others + 1
      BY <3>1 DEF Counters
    <3>3. bounds' = IF revenant THEN [bounds EXCEPT !.others = @ + 1] ELSE bounds
      BY <1>4 DEF Writes
    <3>4. CASE revenant
      BY <3>2, <3>3, <3>4
    <3>5. CASE ~revenant
      BY <3>3, <3>5
    <3> QED
      BY <3>4, <3>5
  <2>2. landed[f] => landed'[f]
    BY <1>2, <1>4, WritesTypes DEF Inv, TypeOK
  <2>3. ~revenant =>
          \/ stored'[f] = stored[f] /\ (landed'[f] <=> landed[f])
          \/ /\ texts[f] \in Texts /\ stored'[f] = texts[f]
             /\ texts[f] \in known[f] /\ stored[f] \in known[f] \cup {texts[f]}
             /\ landed'[f] <=> landed[f] \/ typed[f] = texts[f]
    <3>1. SUFFICES ASSUME ~revenant
                   PROVE  \/ stored'[f] = stored[f] /\ (landed'[f] <=> landed[f])
                          \/ /\ texts[f] \in Texts /\ stored'[f] = texts[f]
                             /\ texts[f] \in known[f] /\ stored[f] \in known[f] \cup {texts[f]}
                             /\ landed'[f] <=> landed[f] \/ typed[f] = texts[f]
      OBVIOUS
    <3>2. \/ texts[f] = None /\ stored'[f] = stored[f] /\ (landed'[f] <=> landed[f])
          \/ /\ texts[f] \in Texts /\ stored'[f] = texts[f]
             /\ stored[f] \in known[f] \cup {texts[f]}
             /\ landed'[f] <=> landed[f] \/ typed[f] = texts[f]
      BY <3>1, <1>2, <1>4, NoClash DEF Inv
    <3>3. texts[f] # None => texts[f] \in known[f]
      BY <3>1, <1>2
    <3>4. texts[f] \in Texts => texts[f] # None
      BY NoneAssumption
    <3> QED
      BY <3>2, <3>3, <3>4
  <2> QED
    BY <1>5, <2>1, <2>2, <2>3
<1> QED
  BY <1>2, <1>3, <1>4

(* No save of this browser replaces a text that was never on its screen.    *)
THEOREM OverwriteCorrect == Spec => NoSilentOverwrite
<1> DEFINE Step == ~revenant /\ bounds'.others = bounds.others =>
                     \A f \in Fields : stored'[f] # stored[f] => stored[f] \in known[f]
<1>1. ASSUME Inv, [Next]_vars PROVE [Step]_vars
  <2>1. CASE stored' = stored
    BY <2>1
  <2>2. CASE ServerTakes \/ \E r \in late : LateArrives(r)
    <3>1. ASSUME ~revenant, NEW f \in Fields, stored'[f] # stored[f] PROVE stored[f] \in known[f]
      BY <1>1, <2>2, <3>1, Takes
    <3> QED
      BY <3>1
  <2>3. ASSUME NEW f \in Fields, NEW t \in Texts, SomebodyWrites(f, t) PROVE Step
    <3>1. bounds \in Counters /\ bounds' = [bounds EXCEPT !.others = @ + 1]
      BY <1>1, <2>3 DEF SomebodyWrites, Inv, TypeOK, Counters
    <3>2. bounds'.others = bounds.others + 1 /\ bounds.others \in Nat
      BY <3>1 DEF Counters
    <3> QED
      BY <3>2
  <2>4. CASE ~(ServerTakes \/ \E r \in late : LateArrives(r))
             /\ ~\E f \in Fields, t \in Texts : SomebodyWrites(f, t)
    <3>1. stored' = stored
      BY <1>1, <2>4
      DEF Next, Typing, Session, vars, server, KeepMine, TakeTheirs, Edit, Enter, SignsOut, Reload,
          SignsIn, Flush, Answered, Unanswered, LoadReads, LoadPaints, Leaves, ServerFails
    <3> QED
      BY <2>1, <3>1
  <2> QED
    BY <2>2, <2>3, <2>4
<1> QED
  BY <1>1, Invariance, PTL DEF NoSilentOverwrite, Spec
-----------------------------------------------------------------------------
(* What each step is to the register of a field. *)

LEMMA Saying ==
  ASSUME Inv, Inv', NEW f \in Fields, known[f] \subseteq known'[f],
         stored'[f] = stored[f], bounds'.others = bounds.others, typed'[f] = typed[f],
         landed'[f] = landed[f]
  PROVE  Register(f)!Say
<1>1. known'[f] \subseteq Texts
  BY DEF Inv, TypeOK
<1>2. (entry[f].status = "none" <=> typed[f] = None) /\ (entry'[f].status = "none" <=> typed[f] = None)
  BY DEF Inv, Steady
<1>3. Says(f)' = "saved" => landed[f]
  <2>1. Says(f)' = "saved" => ~revenant' /\ entry'[f].status = "saved"
    BY DEF Says
  <2>2. ~revenant' /\ entry'[f].status = "saved" => landed'[f]
    BY DEF Inv, Sound, Held
  <2> QED
    BY <2>1, <2>2
<1>4. Says(f)' \in {"quiet", "unsaved", "saved", "working"}
  BY DEF Says
<1>5. Says(f)' = "quiet" => Says(f) = "quiet"
  BY <1>2 DEF Says
<1>6. Says(f)' \in {"unsaved", "working"} => typed[f] # None
  BY <1>2 DEF Says
<1>7. \/ Says(f)' = Says(f)
      \/ landed[f] /\ Says(f)' = "saved"
      \/ typed[f] # None /\ Says(f)' \in {"working", "unsaved"}
  BY <1>3, <1>4, <1>5, <1>6
<1> QED
  BY <1>1, <1>7 DEF Register!Say, Register!Sees

LEMMA Others ==
  ASSUME bounds \in Counters
  PROVE  /\ [bounds EXCEPT !.edits = @ + 1].others = bounds.others
         /\ [bounds EXCEPT !.fails = @ + 1].others = bounds.others
         /\ [bounds EXCEPT !.logins = @ + 1].others = bounds.others
         /\ [bounds EXCEPT !.reloads = @ + 1].others = bounds.others
         /\ [bounds EXCEPT !.others = @ + 1].others = bounds.others + 1
  BY DEF Counters

LEMMA Sights ==
  ASSUME Inv, Inv', Remembers
  PROVE  \A f \in Fields : known[f] \subseteq known'[f] /\ Shown(f)' \subseteq known'[f]
<1>1. known \in [Fields -> SUBSET Texts]
  BY DEF Inv, TypeOK
<1> QED
  BY <1>1 DEF Remembers

LEMMA EnterIsType ==
  ASSUME Inv, Inv', NEW f \in Fields, NEW g \in Fields, NEW t \in Texts, NEW e, user # None,
         Enter(g, t, e)
  PROVE  Register(f)!Next
<1>1. bounds'.others = bounds.others
  BY Others DEF Enter, Inv, TypeOK, Counters
<1>2. \A h \in Fields : known[h] \subseteq known'[h] /\ Shown(h)' \subseteq known'[h]
  BY Sights DEF Enter
<1>3. stored' = stored /\ user' = user
  BY DEF Enter, server
<1>4. CASE f = g
  <2>1. entry'[f].status = "pending" /\ entry'[f].draft = t /\ typed'[f] = t /\ landed'[f] = FALSE
    BY <1>4 DEF Enter, NoteEdit, Inv, TypeOK, MaybeTexts
  <2>2. Says(f)' = "working"
    BY <2>1 DEF Says
  <2>3. t \in known'[f]
    BY <1>2, <1>3, <2>1, NoneAssumption DEF Shown
  <2>4. known'[f] \subseteq Texts
    BY DEF Inv, TypeOK
  <2> QED
    BY <1>1, <1>2, <1>3, <2>1, <2>2, <2>3, <2>4 DEF Register!Next, Register!Type, Register!Sees
<1>5. CASE f # g
  <2>1. typed'[f] = typed[f] /\ landed'[f] = landed[f]
    BY <1>5 DEF Enter, Inv, TypeOK, MaybeTexts
  <2>2. Register(f)!Say
    BY <1>1, <1>2, <1>3, <2>1, Saying
  <2> QED
    BY <2>2 DEF Register!Next
<1> QED
  BY <1>4, <1>5

LEMMA TakeTheirsIsDrop ==
  ASSUME Inv, Inv', NEW f \in Fields, NEW g \in Fields, TakeTheirs(g)
  PROVE  Register(f)!Next
<1>1. /\ stored' = stored /\ bounds' = bounds
      /\ \A h \in Fields : known[h] \subseteq known'[h]
  BY Sights DEF TakeTheirs, server
<1>2. CASE f = g
  <2>1. entry'[f] = NoEntry /\ typed'[f] = None /\ landed'[f] = FALSE
    BY <1>2 DEF TakeTheirs, Inv, TypeOK, MaybeTexts
  <2>2. Says(f)' = "quiet"
    BY <2>1 DEF Says, NoEntry
  <2>3. known'[f] \subseteq Texts
    BY DEF Inv, TypeOK
  <2> QED
    BY <1>1, <2>1, <2>2, <2>3 DEF Register!Next, Register!Drop, Register!Sees
<1>3. CASE f # g
  <2>1. typed'[f] = typed[f] /\ landed'[f] = landed[f]
    BY <1>3 DEF TakeTheirs, Inv, TypeOK, MaybeTexts
  <2>2. Register(f)!Say
    BY <1>1, <2>1, Saying
  <2> QED
    BY <2>2 DEF Register!Next
<1> QED
  BY <1>2, <1>3

(* Leaving the page or the session drops every field. *)

LEMMA LeavingIsDrop ==
  ASSUME Inv, Inv', NEW f \in Fields, SignsOut \/ Reload
  PROVE  Register(f)!Next
<1>1. /\ stored' = stored /\ bounds'.others = bounds.others /\ entry' = NoEntries
      /\ typed' = NoTexts /\ landed' = [h \in Fields |-> FALSE]
      /\ known[f] \subseteq known'[f]
  <2>1. CASE SignsOut
    BY <2>1 DEF SignsOut, server
  <2>2. CASE Reload
    BY <2>2, Sights, Others DEF Reload, Inv, TypeOK, Counters
  <2> QED
    BY <2>1, <2>2
<1>2. entry'[f] = NoEntry /\ typed'[f] = None /\ landed'[f] = FALSE
  BY <1>1 DEF NoEntries, NoTexts
<1>3. Says(f)' = "quiet"
  BY <1>2 DEF Says, NoEntry
<1>4. known'[f] \subseteq Texts
  BY DEF Inv, TypeOK
<1> QED
  BY <1>1, <1>2, <1>3, <1>4 DEF Register!Next, Register!Drop, Register!Sees

(* The server takes a text, or somebody writes. *)

LEMMA TakesIsTake ==
  ASSUME Inv, Inv', NEW f \in Fields, ServerTakes \/ \E r \in late : LateArrives(r)
  PROVE  Register(f)!Next
<1>1. /\ entry' = entry /\ known' = known /\ typed' = typed /\ revenant' = revenant
      /\ \/ bounds' = bounds /\ (revenant => stored' = stored /\ landed' = landed)
         \/ revenant /\ bounds'.others = bounds.others + 1
      /\ landed[f] => landed'[f]
      /\ ~revenant =>
           \/ stored'[f] = stored[f] /\ (landed'[f] <=> landed[f])
           \/ \E t \in Texts :
                /\ stored'[f] = t /\ t \in known[f] /\ stored[f] \in known[f] \cup {t}
                /\ landed'[f] <=> landed[f] \/ typed[f] = t
  BY Takes
<1>2. Says(f)' = Says(f)
  BY <1>1 DEF Says
<1>3. landed[f] \in BOOLEAN /\ landed'[f] \in BOOLEAN /\ stored'[f] \in Texts /\ known[f] \subseteq Texts
  BY DEF Inv, TypeOK
<1>4. CASE revenant /\ bounds'.others = bounds.others + 1
  <2>1. landed'[f] = landed[f] \/ landed'[f] = TRUE
    BY <1>1, <1>3, Zenon
  <2> QED
    BY <1>1, <1>2, <1>3, <1>4, <2>1 DEF Register!Next, Register!SomebodyWrites
<1>5. CASE bounds' = bounds /\ stored'[f] = stored[f] /\ (landed'[f] <=> landed[f])
  <2>1. landed'[f] = landed[f]
    BY <1>3, <1>5, Zenon
  <2>2. Register(f)!Say
    BY <1>1, <1>5, <2>1, Saying
  <2> QED
    BY <2>2 DEF Register!Next
<1>6. ASSUME NEW t \in Texts, bounds' = bounds, stored'[f] = t, t \in known[f],
             stored[f] \in known[f] \cup {t}, landed'[f] <=> landed[f] \/ typed[f] = t
      PROVE  Register(f)!Next
  <2>1. landed'[f] = (landed[f] \/ typed[f] = t)
    BY <1>3, <1>6, Zenon
  <2>2. Register(f)!Take(t)
    BY <1>1, <1>2, <1>6, <2>1 DEF Register!Take
  <2> QED
    BY <2>2 DEF Register!Next
<1>7. CASE bounds' = bounds /\ ~revenant
  BY <1>1, <1>5, <1>6, <1>7
<1>8. CASE bounds' = bounds /\ revenant /\ stored' = stored /\ landed' = landed
  BY <1>5, <1>8
<1> QED
  BY <1>1, <1>4, <1>7, <1>8

LEMMA SomebodyIsSomebody ==
  ASSUME Inv, Inv', NEW f \in Fields, NEW g \in Fields, NEW t \in Texts, SomebodyWrites(g, t)
  PROVE  Register(f)!Next
<1>1. bounds'.others = bounds.others + 1
  BY Others DEF SomebodyWrites, Inv, TypeOK, Counters
<1>2. entry' = entry /\ known' = known /\ typed' = typed /\ landed' = landed /\ revenant' = revenant
  BY DEF SomebodyWrites, history
<1>3. Says(f)' = Says(f)
  BY <1>2 DEF Says
<1>4. stored'[f] \in Texts
  BY DEF Inv, TypeOK
<1> QED
  BY <1>1, <1>2, <1>3, <1>4 DEF Register!Next, Register!SomebodyWrites

(* Every other step only changes what is said, or nothing. *)

LEMMA RestIsSay ==
  ASSUME Inv, Inv', NEW f \in Fields,
         \/ Flush \/ Leaves \/ ServerFails \/ Answered \/ Unanswered \/ LoadReads \/ LoadPaints
         \/ \E u \in Users : SignsIn(u)
  PROVE  Register(f)!Next
<1>1. stored' = stored /\ typed' = typed /\ landed' = landed
  BY DEF Flush, Leaves, ServerFails, Answered, Unanswered, Settles, LoadReads, LoadPaints, SignsIn,
         server, history
<1>2. bounds'.others = bounds.others
  BY Others
  DEF Flush, Leaves, ServerFails, Answered, Unanswered, LoadReads, LoadPaints, SignsIn, MayFail,
      Inv, TypeOK, Counters
<1>3. known[f] \subseteq known'[f]
  <2>1. known' = known \/ Remembers
    BY DEF Flush, Leaves, ServerFails, Answered, Unanswered, Settles, LoadReads, LoadPaints, SignsIn,
           history
  <2> QED
    BY <2>1, Sights
<1>4. Register(f)!Say
  BY <1>1, <1>2, <1>3, Saying
<1> QED
  BY <1>4 DEF Register!Next

(* Each field keeps what TextRegister promises: the code's entries, batches *)
(* and requests implement it.                                               *)
THEOREM Refinement == Spec => KeepsItsPromise
<1>1. Init => \A f \in Fields : Register(f)!Init
  <2> SUFFICES ASSUME Init, NEW f \in Fields PROVE Register(f)!Init
    OBVIOUS
  <2>1. /\ stored[f] \in Texts /\ bounds.others = 0 /\ known[f] = {} /\ typed[f] = None
        /\ landed[f] = FALSE /\ entry[f].status = "none"
    BY BlankAssumption DEF Init, NoTexts, NoEntries, NoEntry
  <2>2. Says(f) = "quiet"
    BY <2>1 DEF Says
  <2> QED
    BY <2>1, <2>2 DEF Register!Init
<1>2. ASSUME Inv, Inv', [Next]_vars
      PROVE  [\A f \in Fields : [Register(f)!Next]_(Register(f)!vars)]_vars
  <2> SUFFICES ASSUME NEW f \in Fields PROVE [Register(f)!Next]_(Register(f)!vars) \/ UNCHANGED vars
    OBVIOUS
  <2>1. ASSUME NEW g \in Fields, NEW t \in Texts, Edit(g, t) PROVE Register(f)!Next
    BY <1>2, <2>1, EnterIsType DEF Edit
  <2>2. ASSUME NEW g \in Fields, KeepMine(g) PROVE Register(f)!Next
    <3>1. user # None /\ entry[g].draft \in Texts /\ \E e \in Entries : Enter(g, entry[g].draft, e)
      BY <1>2, <2>2, KeepMineStep
    <3> QED
      BY <1>2, <3>1, EnterIsType
  <2>3. ASSUME NEW g \in Fields, TakeTheirs(g) PROVE Register(f)!Next
    BY <1>2, <2>3, TakeTheirsIsDrop
  <2>4. CASE SignsOut \/ Reload
    BY <1>2, <2>4, LeavingIsDrop
  <2>5. CASE ServerTakes \/ \E r \in late : LateArrives(r)
    BY <1>2, <2>5, TakesIsTake
  <2>6. ASSUME NEW g \in Fields, NEW t \in Texts, SomebodyWrites(g, t) PROVE Register(f)!Next
    BY <1>2, <2>6, SomebodyIsSomebody
  <2>7. CASE \/ Flush \/ Leaves \/ ServerFails \/ Answered \/ Unanswered \/ LoadReads \/ LoadPaints
             \/ \E u \in Users : SignsIn(u)
    BY <1>2, <2>7, RestIsSay
  <2> QED
    BY <1>2, <2>1, <2>2, <2>3, <2>4, <2>5, <2>6, <2>7 DEF Next, Typing, Session
<1> QED
  BY <1>1, <1>2, Invariance, PTL DEF KeepsItsPromise, Spec
=============================================================================
