-------------------------- MODULE StatusMovesProofs --------------------------
(***************************************************************************)
(* What holds of the status of an Einsatz for any number of boards, moves,  *)
(* failures and automatic moves.                                            *)
(***************************************************************************)
EXTENDS StatusMoves, SequenceTheorems, TLAPS

Newest(q) == q[Len(q)]

(* A request had in view what it names.                                     *)
Honest(r) == r.seen \in r.saw /\ (r.override # None => r.override \in r.saw)
RequestsAreHonest ==
  /\ \A b \in Boards : batch[b] # NoBatch => Honest(batch[b])
  /\ \A b \in Boards : \A i \in DOMAIN queue[b] : Honest(queue[b][i])
  /\ \A b \in Boards : post[b] # NoPost => Honest(post[b])
  /\ \A r \in late : Honest(r)

(* The slip of the card in the crew's hands was asked for.                  *)
SlipsAreCounted == SlipPerDispatch /\ (status \in AutoPrint => dispatched)

(* Without a load owed to it, a board shows the card where the server has   *)
(* it, or where its newest move, not yet answered for, puts it.             *)
Follows(b) ==
  IF batch[b] # NoBatch THEN shown[b] \in {status, batch[b].to}
  ELSE IF queue[b] # <<>>
       THEN \/ shown[b] = status
            \/ Newest(queue[b]).ans = "none" /\ shown[b] = Newest(queue[b]).to
            \/ Newest(queue[b]).ans = "refused"
       ELSE shown[b] = status
Current(b) == asked[b] \/ mail[b] \/ Follows(b)

(* The move a board counts on is the last it queued, and is what the server *)
(* holds once it was accepted.                                              *)
Counts(b) ==
  mine[b] # None =>
    IF batch[b] # NoBatch THEN batch[b].to = mine[b]
    ELSE IF queue[b] # <<>>
         THEN /\ Newest(queue[b]).to = mine[b]
              /\ Newest(queue[b]).ans = "ok" => status = mine[b]
         ELSE status = mine[b]

(* One request at a time.                                                   *)
Serial(b) == \A i \in DOMAIN queue[b] : i # 1 => queue[b][i].ans = "none"

InOrder(b) == Current(b) /\ Counts(b) /\ Serial(b)
BoardsInOrder == \A b \in Boards : InOrder(b)

Inv == TypeOK /\ RequestsAreHonest /\ SlipsAreCounted /\ BoardsInOrder
-----------------------------------------------------------------------------
(* Queues. *)

LEMMA QueueHead ==
  ASSUME NEW S, NEW q \in Seq(S), q # <<>>
  PROVE  /\ Head(q) = q[1] /\ q[1] \in S /\ 1 \in DOMAIN q
         /\ Len(q) \in Nat /\ Len(q) > 0 /\ Len(q) \in DOMAIN q /\ DOMAIN q = 1 .. Len(q)
         /\ Newest(q) \in S
  BY DEF Newest

LEMMA QueueTail ==
  ASSUME NEW S, NEW q \in Seq(S), q # <<>>
  PROVE  /\ Tail(q) \in Seq(S)
         /\ \A i \in DOMAIN Tail(q) : i \in Nat \ {0} /\ i + 1 \in DOMAIN q /\ Tail(q)[i] = q[i + 1]
         /\ Tail(q) # <<>> => Newest(Tail(q)) = Newest(q)
         /\ Tail(q) = <<>> => Newest(q) = q[1]
<1>1. /\ Tail(q) \in Seq(S) /\ Len(Tail(q)) = Len(q) - 1 /\ Len(q) \in Nat /\ Len(q) > 0
      /\ \A i \in 1 .. Len(Tail(q)) : Tail(q)[i] = q[i + 1]
  BY HeadTailProperties, EmptySeq, LenProperties
<1>2. DOMAIN q = 1 .. Len(q) /\ DOMAIN Tail(q) = 1 .. Len(q) - 1
  BY <1>1, LenProperties
<1>3. ASSUME Tail(q) # <<>> PROVE Newest(Tail(q)) = Newest(q)
  <2>1. Len(Tail(q)) > 0 /\ Len(Tail(q)) \in Nat
    BY <1>1, <1>3, EmptySeq, LenProperties
  <2> QED BY <1>1, <2>1 DEF Newest
<1>4. ASSUME Tail(q) = <<>> PROVE Newest(q) = q[1]
  <2>1. Len(q) = 1
    BY <1>1, <1>4
  <2> QED BY <2>1 DEF Newest
<1> QED BY <1>1, <1>2, <1>3, <1>4

LEMMA QueueAppend ==
  ASSUME NEW S, NEW q \in Seq(S), NEW r \in S
  PROVE  /\ Append(q, r) \in Seq(S) /\ Append(q, r) # <<>> /\ Newest(Append(q, r)) = r
         /\ \A i \in DOMAIN Append(q, r) :
              \/ i \in DOMAIN q /\ Append(q, r)[i] = q[i]
              \/ Append(q, r)[i] = r
<1>1. /\ Append(q, r) \in Seq(S) /\ Append(q, r) # <<>> /\ Len(Append(q, r)) = Len(q) + 1
      /\ \A i \in 1 .. Len(q) : Append(q, r)[i] = q[i]
      /\ Append(q, r)[Len(q) + 1] = r
  BY AppendProperties
<1>2. DOMAIN q = 1 .. Len(q) /\ Len(q) \in Nat /\ DOMAIN Append(q, r) = 1 .. Len(q) + 1
  BY <1>1, LenProperties
<1> QED BY <1>1, <1>2 DEF Newest

LEMMA QueueAnswered ==
  ASSUME NEW S, NEW q \in Seq(S), q # <<>>, NEW r \in S
  PROVE  /\ [q EXCEPT ![1] = r] \in Seq(S) /\ [q EXCEPT ![1] = r] # <<>>
         /\ DOMAIN [q EXCEPT ![1] = r] = DOMAIN q
         /\ [q EXCEPT ![1] = r][1] = r
         /\ \A i \in DOMAIN q : i # 1 => [q EXCEPT ![1] = r][i] = q[i]
         /\ Newest([q EXCEPT ![1] = r]) = IF Len(q) = 1 THEN r ELSE Newest(q)
<1>1. 1 \in 1 .. Len(q) /\ DOMAIN q = 1 .. Len(q) /\ Len(q) \in Nat
  BY QueueHead
<1>2. /\ [q EXCEPT ![1] = r] \in Seq(S) /\ Len([q EXCEPT ![1] = r]) = Len(q)
      /\ DOMAIN [q EXCEPT ![1] = r] = DOMAIN q
      /\ \A i \in DOMAIN q : [q EXCEPT ![1] = r][i] = IF i = 1 THEN r ELSE q[i]
  BY <1>1, ExceptSeq
<1>3. [q EXCEPT ![1] = r] # <<>>
  BY <1>1, <1>2
<1>4. Len(q) \in DOMAIN q
  BY <1>1
<1> QED BY <1>1, <1>2, <1>3, <1>4 DEF Newest
-----------------------------------------------------------------------------
(* What a write of the server leaves behind. *)

Moved(by) == Nothing \/ \E to \in Statuses : Transition(to, by)

LEMMA MovedServer ==
  ASSUME TypeOK, SlipsAreCounted, NEW by, Moved(by)
  PROVE  /\ status' \in Statuses /\ dispatched' \in BOOLEAN /\ slips' \in Nat
         /\ mail' \in [Boards -> BOOLEAN] /\ mine' \in [Boards -> Maybe]
         /\ SlipsAreCounted'
         /\ status' # status => \A b \in Boards : mail'[b]
         /\ \A b \in Boards : mail[b] => mail'[b]
         /\ \A b \in Boards : mine'[b] # None => mine'[b] = mine[b] /\ (b = by \/ status' = status)
<1>1. CASE Nothing
  BY <1>1 DEF Nothing, server, TypeOK, SlipsAreCounted, SlipPerDispatch
<1>2. ASSUME NEW to \in Statuses, Transition(to, by)
      PROVE  /\ status' \in Statuses /\ dispatched' \in BOOLEAN /\ slips' \in Nat
             /\ mail' \in [Boards -> BOOLEAN] /\ mine' \in [Boards -> Maybe]
             /\ SlipsAreCounted'
             /\ status' # status => \A b \in Boards : mail'[b]
             /\ \A b \in Boards : mail[b] => mail'[b]
             /\ \A b \in Boards : mine'[b] # None => mine'[b] = mine[b] /\ (b = by \/ status' = status)
  <2>1. status' \in Statuses /\ dispatched' \in BOOLEAN /\ slips' \in Nat
    BY <1>2 DEF Transition, TypeOK
  <2>2. mail' \in [Boards -> BOOLEAN]
    BY <1>2 DEF Transition, TypeOK
  <2>3. mine' \in [Boards -> Maybe]
    BY <1>2 DEF Transition, TypeOK, Maybe
  <2>4. SlipsAreCounted'
    <3>1. CASE PrintDue(to)
      <4>1. slips' = slips + 1 /\ status' = to /\ dispatched' = (dispatched \/ to \in AutoPrint)
        BY <1>2, <3>1 DEF Transition
      <4>2. to \in AutoPrint /\ ~dispatched
        BY <3>1 DEF PrintDue
      <4>3. dispatched'
        BY <4>1, <4>2, Zenon
      <4>4. slips = 0
        BY <4>2 DEF SlipsAreCounted, SlipPerDispatch
      <4>5. slips' = 1
        BY <4>1, <4>4
      <4> QED BY <4>3, <4>5 DEF SlipsAreCounted, SlipPerDispatch
    <3>2. CASE ~PrintDue(to)
      <4>1. slips' = slips /\ status' = to /\ dispatched' = (dispatched \/ to \in AutoPrint)
        BY <1>2, <3>2 DEF Transition
      <4>2. to \in AutoPrint => dispatched
        BY <3>2 DEF PrintDue, SlipsAreCounted
      <4> QED BY <4>1, <4>2 DEF SlipsAreCounted, SlipPerDispatch, TypeOK
    <3> QED BY <3>1, <3>2
  <2>5. status' # status => \A b \in Boards : mail'[b]
    BY <1>2 DEF Transition, TypeOK
  <2>6. \A b \in Boards : mail[b] => mail'[b]
    BY <1>2 DEF Transition, TypeOK
  <2>7. \A b \in Boards : mine'[b] # None => mine'[b] = mine[b] /\ (b = by \/ status' = status)
    BY <1>2 DEF Transition, TypeOK
  <2> QED BY <2>1, <2>2, <2>3, <2>4, <2>5, <2>6, <2>7
<1> QED BY <1>1, <1>2 DEF Moved

(* A board an action does not touch, but to leave mail or to move the card. *)
LEMMA BoardKept ==
  ASSUME NEW d \in Boards, InOrder(d),
         shown'[d] = shown[d], batch'[d] = batch[d], queue'[d] = queue[d],
         asked[d] => asked'[d], mail[d] => mail'[d], status' # status => mail'[d],
         mine'[d] # None => mine'[d] = mine[d] /\ status' = status
  PROVE  InOrder(d)'
<1>1. Current(d)'
  BY DEF InOrder, Current, Follows
<1>2. Counts(d)'
  BY DEF InOrder, Counts
<1>3. Serial(d)'
  BY DEF InOrder, Serial
<1> QED BY <1>1, <1>2, <1>3 DEF InOrder

LEMMA Untouched ==
  ASSUME Inv, Moved(None), UNCHANGED <<shown, batch, queue, asked>>
  PROVE  BoardsInOrder'
<1>1. None \notin Boards
  BY NoneAssumption
<1> QED BY <1>1, MovedServer, BoardKept DEF Inv, BoardsInOrder
-----------------------------------------------------------------------------
(* The server's actions. *)

LEMMA PatchedMoves ==
  ASSUME NEW r, NEW by, r.to \in Statuses, Patched(r, by)
  PROVE  Moved(by)
  BY DEF Patched, Moved

LEMMA AutoStep ==
  ASSUME Inv, Moved(None), auto' \in [Movers -> {"idle", "read", "done"}],
         bounds' \in [moves : Nat, others : Nat], late' \subseteq late,
         UNCHANGED <<screen, queue, asked>>,
         post' \in [Boards -> {NoPost} \cup Posts],
         \A b \in Boards : post'[b] # NoPost => Honest(post'[b])
  PROVE  Inv'
<1>1. TypeOK'
  <2>1. late' \subseteq Requests
    BY DEF Inv, TypeOK
  <2> QED BY <2>1, MovedServer DEF Inv, TypeOK, screen
<1>2. RequestsAreHonest'
  BY DEF Inv, RequestsAreHonest, screen
<1>3. SlipsAreCounted'
  BY MovedServer DEF Inv
<1>4. BoardsInOrder'
  BY Untouched DEF screen
<1> QED BY <1>1, <1>2, <1>3, <1>4 DEF Inv

LEMMA OnceCounts ==
  ASSUME TypeOK, Once
  PROVE  bounds' \in [moves : Nat, others : Nat]
  BY DEF TypeOK, Once

LEMMA ReadsStep == ASSUME Inv, NEW m \in Movers, Reads(m) PROVE Inv'
<1>1. Moved(None)
  BY DEF Reads, Moved, Nothing
<1>2. bounds' \in [moves : Nat, others : Nat]
  BY OnceCounts DEF Reads, Inv
<1>3. auto' \in [Movers -> {"idle", "read", "done"}]
  BY DEF Reads, Inv, TypeOK
<1> QED BY <1>1, <1>2, <1>3, AutoStep DEF Reads, Inv, TypeOK, RequestsAreHonest

LEMMA MovesStep == ASSUME Inv, NEW m \in Movers, Moves(m) PROVE Inv'
<1>1. Moved(None)
  BY DEF Moves, Moved, Statuses
<1>2. auto' \in [Movers -> {"idle", "read", "done"}]
  BY DEF Moves, Inv, TypeOK
<1> QED BY <1>1, <1>2, AutoStep DEF Moves, Inv, TypeOK, RequestsAreHonest

LEMMA FieldCompletesStep == ASSUME Inv, FieldCompletes PROVE Inv'
<1>1. Moved(None)
  BY DEF FieldCompletes, Moved, Statuses
<1>2. bounds' \in [moves : Nat, others : Nat]
  BY OnceCounts DEF FieldCompletes, Inv
<1> QED BY <1>1, <1>2, AutoStep DEF FieldCompletes, Inv, TypeOK, RequestsAreHonest

LEMMA RekoAssignedStep == ASSUME Inv, RekoAssigned PROVE Inv'
<1>1. Moved(None)
  BY DEF RekoAssigned, Moved, Statuses
<1>2. bounds' \in [moves : Nat, others : Nat]
  BY OnceCounts DEF RekoAssigned, Inv
<1> QED BY <1>1, <1>2, AutoStep DEF RekoAssigned, Inv, TypeOK, RequestsAreHonest

LEMMA LateArrivesStep == ASSUME Inv, NEW r \in late, LateArrives(r) PROVE Inv'
<1>1. r.to \in Statuses
  BY DEF Inv, TypeOK, Requests
<1>2. Moved(None)
  BY <1>1, PatchedMoves DEF LateArrives
<1> QED BY <1>2, AutoStep DEF LateArrives, Inv, TypeOK, RequestsAreHonest

LEMMA PostServedStep == ASSUME Inv, NEW b \in Boards, PostServed(b) PROVE Inv'
<1>1. post[b] \in Posts /\ post[b] # NoPost /\ Honest(post[b])
  BY DEF PostServed, Inv, TypeOK, RequestsAreHonest
<1>2. post[b].to \in Statuses
  BY <1>1 DEF Posts, Said
<1>3. Moved(None)
  BY <1>2 DEF PostServed, Moved
<1>4. post' \in [Boards -> {NoPost} \cup Posts]
  <2> DEFINE a == IF Accepts(post[b]) THEN "ok" ELSE "refused"
             p == [post[b] EXCEPT !.ans = a, !.now = status]
  <2>1. a \in {"ok", "refused"} /\ status \in Statuses /\ status # None /\ status \in Maybe
    BY NoneAssumption DEF Inv, TypeOK, Maybe
  <2>2. post' = [post EXCEPT ![b] = p]
    BY DEF PostServed
  <2> HIDE DEF a
  <2>3. p \in Posts
    BY <1>1, <2>1 DEF Posts, Said
  <2> QED BY <2>2, <2>3 DEF Inv, TypeOK
<1>5. \A d \in Boards : post'[d] # NoPost => Honest(post'[d])
  <2>1. Honest(post'[b])
    BY <1>1 DEF PostServed, Inv, TypeOK, Honest, Posts, Said
  <2> QED BY <2>1 DEF PostServed, Inv, TypeOK, RequestsAreHonest
<1> QED BY <1>3, <1>4, <1>5, AutoStep DEF PostServed, Inv, TypeOK
-----------------------------------------------------------------------------
(* The actions of a board. *)

LEMMA MergedBatch ==
  ASSUME Inv, NEW b \in Boards, NEW to \in Statuses, NEW seen \in Statuses,
         NEW override \in Maybe, NEW saw \in SUBSET Statuses,
         seen \in saw, override # None => override \in saw
  PROVE  /\ Merged(b, to, seen, override, saw) \in Batches
         /\ Merged(b, to, seen, override, saw).to = to
         /\ Merged(b, to, seen, override, saw) # NoBatch
         /\ Honest(Merged(b, to, seen, override, saw))
<1> DEFINE m == Merged(b, to, seen, override, saw)
<1>1. batch[b] \in {NoBatch} \cup Batches
  BY DEF Inv, TypeOK
<1>2. None \notin Statuses
  BY NoneAssumption
<1>3. m.to = to /\ m # NoBatch
  BY <1>2 DEF Merged, NoBatch
<1>4. CASE Remembers(batch[b], override)
  <2>1. m.seen = seen /\ m.override = override /\ m.saw = batch[b].saw \cup saw
    BY <1>4 DEF Merged
  <2>2. batch[b].saw \in SUBSET Statuses
    BY <1>1 DEF NoBatch, Batches
  <2>3. m \in Batches
    BY <1>4, <2>2 DEF Merged, Batches
  <2> QED BY <1>3, <2>1, <2>3 DEF Honest
<1>5. CASE ~Remembers(batch[b], override)
  <2>1. batch[b] # NoBatch /\ batch[b] \in Batches /\ Honest(batch[b])
    BY <1>1, <1>5 DEF Remembers, Inv, RequestsAreHonest
  <2>2. m.seen = batch[b].seen /\ m.override = batch[b].override /\ m.saw = batch[b].saw \cup saw
    BY <1>5 DEF Merged
  <2>3. m \in Batches
    BY <1>5, <2>1 DEF Merged, Batches
  <2>4. Honest(m)
    BY <2>1, <2>2 DEF Honest
  <2> QED BY <1>3, <2>3, <2>4
<1> QED BY <1>4, <1>5

LEMMA EditStep ==
  ASSUME Inv, NEW b \in Boards, NEW to \in Statuses, NEW seen \in Statuses,
         NEW override \in Maybe, NEW saw \in SUBSET Statuses,
         seen \in saw, override # None => override \in saw,
         Edit(b, to, seen, override, saw),
         gate' \in [Boards -> Maybe], conflict' \in [Boards -> {NoConflict} \cup Conflicts],
         bounds' \in [moves : Nat, others : Nat]
  PROVE  Inv'
<1> DEFINE m == Merged(b, to, seen, override, saw)
<1>1. m \in Batches /\ m.to = to /\ m # NoBatch /\ Honest(m)
  BY MergedBatch
<1>2. batch' = [batch EXCEPT ![b] = m]
  BY DEF Edit
<1> HIDE DEF m
<1>3. TypeOK'
  <2>1. shown' \in [Boards -> Statuses] /\ mine' \in [Boards -> Maybe]
    BY DEF Edit, Inv, TypeOK, Maybe
  <2>2. batch' \in [Boards -> {NoBatch} \cup Batches]
    BY <1>1, <1>2 DEF Inv, TypeOK
  <2> QED BY <2>1, <2>2 DEF Edit, Inv, TypeOK, server
<1>4. RequestsAreHonest'
  BY <1>1, <1>2 DEF Edit, Inv, TypeOK, RequestsAreHonest
<1>5. SlipsAreCounted'
  BY DEF Edit, server, Inv, SlipsAreCounted, SlipPerDispatch
<1>6. BoardsInOrder'
  <2>1. \A d \in Boards \ {b} : InOrder(d)'
    BY <1>2, BoardKept DEF Edit, server, Inv, TypeOK, BoardsInOrder
  <2>2. InOrder(b)'
    <3>1. batch'[b] = m /\ shown'[b] = to /\ mine'[b] = to /\ queue'[b] = queue[b]
      BY <1>2 DEF Edit, Inv, TypeOK
    <3>2. Current(b)'
      BY <1>1, <3>1 DEF Current, Follows
    <3>3. Counts(b)'
      BY <1>1, <3>1 DEF Counts
    <3>4. Serial(b)'
      BY <3>1 DEF Serial, Inv, BoardsInOrder, InOrder
    <3> QED BY <3>2, <3>3, <3>4 DEF InOrder
  <2> QED BY <2>1, <2>2 DEF BoardsInOrder
<1> QED BY <1>3, <1>4, <1>5, <1>6 DEF Inv

LEMMA MoveStep == ASSUME Inv, NEW b \in Boards, NEW to \in Targets, Move(b, to) PROVE Inv'
<1>1. to \in Statuses /\ shown[b] \in Statuses /\ None \in Maybe
  BY TargetsAssumption DEF Inv, TypeOK, Maybe
<1>2. gate' \in [Boards -> Maybe]
  BY <1>1 DEF Move, Gate, Inv, TypeOK, Maybe
<1>3. conflict' \in [Boards -> {NoConflict} \cup Conflicts]
  BY DEF Move, Inv, TypeOK
<1>4. bounds' \in [moves : Nat, others : Nat]
  <2>1. bounds' = [bounds EXCEPT !.moves = @ + 1]
    BY DEF Move
  <2>2. bounds \in [moves : Nat, others : Nat]
    BY DEF Inv, TypeOK
  <2> QED BY <2>1, <2>2
<1> QED BY <1>1, <1>2, <1>3, <1>4, EditStep DEF Move

LEMMA CancelStep == ASSUME Inv, NEW b \in Boards, Cancel(b) PROVE Inv'
<1>1. gate[b] \in Statuses /\ shown[b] \in Statuses /\ None \in Maybe
  BY DEF Cancel, Inv, TypeOK, Maybe
<1>2. gate' \in [Boards -> Maybe]
  BY DEF Cancel, Inv, TypeOK, Maybe
<1>3. /\ conflict' \in [Boards -> {NoConflict} \cup Conflicts]
      /\ bounds' \in [moves : Nat, others : Nat]
  BY DEF Cancel, Inv, TypeOK
<1> QED BY <1>1, <1>2, <1>3, EditStep DEF Cancel

LEMMA InsistStep == ASSUME Inv, NEW b \in Boards, Insist(b) PROVE Inv'
<1>1. conflict[b] \in Conflicts
  BY DEF Insist, Inv, TypeOK
<1>2. /\ conflict[b].wanted \in Statuses /\ conflict[b].seen \in Statuses
      /\ conflict[b].current \in Statuses
  BY <1>1 DEF Conflicts
<1>3. shown[b] \in Statuses /\ conflict[b].current \in Maybe
  BY <1>2 DEF Inv, TypeOK, Maybe
<1>4. conflict' \in [Boards -> {NoConflict} \cup Conflicts]
  BY DEF Insist, Inv, TypeOK
<1>5. gate' \in [Boards -> Maybe] /\ bounds' \in [moves : Nat, others : Nat]
  BY DEF Insist, Inv, TypeOK
<1>6. Edit(b, conflict[b].wanted, conflict[b].seen, conflict[b].current,
           {shown[b], conflict[b].seen, conflict[b].current})
  BY DEF Insist
<1> QED BY <1>2, <1>3, <1>4, <1>5, <1>6, EditStep

(* What leaves the card, the queues and the boards alone. *)
LEMMA AsideStep ==
  ASSUME Inv, UNCHANGED <<server, auto, shown, batch, queue, asked, mail>>,
         mine' \in [Boards -> Maybe], \A d \in Boards : mine'[d] # None => mine'[d] = mine[d],
         late' \subseteq late, post' \in [Boards -> {NoPost} \cup Posts],
         \A b \in Boards : post'[b] # NoPost => Honest(post'[b]),
         gate' \in [Boards -> Maybe], conflict' \in [Boards -> {NoConflict} \cup Conflicts],
         bounds' \in [moves : Nat, others : Nat]
  PROVE  Inv'
<1>1. TypeOK'
  <2>1. late' \subseteq Requests
    BY DEF Inv, TypeOK
  <2> QED BY <2>1 DEF Inv, TypeOK, server
<1>2. RequestsAreHonest'
  BY DEF Inv, RequestsAreHonest
<1>3. SlipsAreCounted'
  BY DEF server, Inv, SlipsAreCounted, SlipPerDispatch
<1>4. BoardsInOrder'
  BY BoardKept DEF server, Inv, BoardsInOrder
<1> QED BY <1>1, <1>2, <1>3, <1>4 DEF Inv

LEMMA GateStandsStep == ASSUME Inv, NEW b \in Boards, GateStands(b) PROVE Inv'
<1>1. gate' \in [Boards -> Maybe]
  BY DEF GateStands, Inv, TypeOK, Maybe
<1> QED BY <1>1, AsideStep DEF GateStands, Inv, TypeOK, RequestsAreHonest

LEMMA KeepStep == ASSUME Inv, NEW b \in Boards, Keep(b) PROVE Inv'
<1>1. conflict' \in [Boards -> {NoConflict} \cup Conflicts]
  BY DEF Keep, Inv, TypeOK
<1> QED BY <1>1, AsideStep DEF Keep, Inv, TypeOK, RequestsAreHonest

LEMMA PromptedStep ==
  ASSUME Inv, NEW b \in Boards, NEW to \in {"active", "complete"}, Prompted(b, to) PROVE Inv'
<1> DEFINE p == [to |-> to, seen |-> status, override |-> None, saw |-> {status},
                 ans |-> "none", now |-> None]
<1>1. post' = [post EXCEPT ![b] = p]
  BY DEF Prompted
<1>2. p \in Posts /\ Honest(p)
  BY DEF Posts, Said, Honest, Maybe, Inv, TypeOK, Statuses
<1>3. post' \in [Boards -> {NoPost} \cup Posts]
  BY <1>1, <1>2 DEF Inv, TypeOK
<1>4. \A d \in Boards : post'[d] # NoPost => Honest(post'[d])
  BY <1>1, <1>2 DEF Inv, TypeOK, RequestsAreHonest
<1>5. bounds' \in [moves : Nat, others : Nat]
  BY OnceCounts DEF Prompted, Inv
<1> QED BY <1>3, <1>4, <1>5, AsideStep DEF Prompted, screen, Inv, TypeOK
LEMMA QueueOf ==
  ASSUME Inv, NEW b \in Boards, queue[b] # <<>>
  PROVE  /\ queue[b] \in Seq(Patches) /\ Head(queue[b]) = queue[b][1] /\ queue[b][1] \in Patches
         /\ 1 \in DOMAIN queue[b] /\ Honest(queue[b][1])
         /\ Newest(queue[b]) \in Patches
         /\ Len(queue[b]) # 1 => Newest(queue[b]).ans = "none"
         /\ Len(queue[b]) = 1 => Newest(queue[b]) = queue[b][1]
<1>1. queue[b] \in Seq(Patches)
  BY DEF Inv, TypeOK
<1>2. /\ Head(queue[b]) = queue[b][1] /\ queue[b][1] \in Patches /\ 1 \in DOMAIN queue[b]
      /\ Newest(queue[b]) \in Patches /\ Len(queue[b]) \in DOMAIN queue[b]
  BY <1>1, QueueHead
<1>3. Honest(queue[b][1])
  BY <1>2 DEF Inv, RequestsAreHonest
<1>4. Len(queue[b]) # 1 => Newest(queue[b]).ans = "none"
  BY <1>2 DEF Inv, BoardsInOrder, InOrder, Serial, Newest
<1> QED BY <1>1, <1>2, <1>3, <1>4 DEF Newest

LEMMA FlushStep == ASSUME Inv, NEW b \in Boards, Flush(b) PROVE Inv'
<1> DEFINE m == batch[b]
           r == [to |-> m.to, seen |-> m.seen, override |-> m.override, saw |-> m.saw,
                 reopens |-> m.reopens, ans |-> "none", now |-> None]
<1>1. m \in Batches /\ Honest(m) /\ m # NoBatch
  BY DEF Flush, Inv, TypeOK, RequestsAreHonest
<1>2. r \in Patches /\ Honest(r) /\ r.to = m.to /\ r.ans = "none"
  BY <1>1 DEF Batches, Patches, Said, Maybe, Honest
<1>3. /\ batch' = [batch EXCEPT ![b] = NoBatch]
      /\ queue' = [queue EXCEPT ![b] = Append(queue[b], r)]
      /\ UNCHANGED <<server, auto, late, shown, gate, conflict, post, asked, mail, bounds, mine>>
  BY DEF Flush, Behind
<1> HIDE DEF r
<1>4. queue[b] \in Seq(Patches)
  BY DEF Inv, TypeOK
<1>5. /\ Append(queue[b], r) \in Seq(Patches) /\ Append(queue[b], r) # <<>>
      /\ Newest(Append(queue[b], r)) = r
      /\ \A i \in DOMAIN Append(queue[b], r) :
           \/ i \in DOMAIN queue[b] /\ Append(queue[b], r)[i] = queue[b][i]
           \/ Append(queue[b], r)[i] = r
  BY <1>2, <1>4, QueueAppend
<1>6. queue'[b] = Append(queue[b], r) /\ batch'[b] = NoBatch
  BY <1>3 DEF Inv, TypeOK
<1>7. TypeOK'
  <2>1. queue' \in [Boards -> Seq(Patches)] /\ batch' \in [Boards -> {NoBatch} \cup Batches]
    BY <1>3, <1>5 DEF Inv, TypeOK
  <2> QED BY <1>3, <2>1 DEF Inv, TypeOK, server
<1>8. RequestsAreHonest'
  <2>1. \A i \in DOMAIN queue'[b] : Honest(queue'[b][i])
    BY <1>2, <1>5, <1>6 DEF Inv, RequestsAreHonest
  <2>2. \A d \in Boards \ {b} : queue'[d] = queue[d]
    BY <1>3 DEF Inv, TypeOK
  <2> QED BY <1>3, <2>1, <2>2 DEF Inv, TypeOK, RequestsAreHonest
<1>9. SlipsAreCounted'
  BY <1>3 DEF server, Inv, SlipsAreCounted, SlipPerDispatch
<1>10. BoardsInOrder'
  <2>1. \A d \in Boards \ {b} : InOrder(d)'
    BY <1>3, BoardKept DEF server, Inv, TypeOK, BoardsInOrder
  <2>2. InOrder(b)
    BY DEF Inv, BoardsInOrder
  <2>3. Current(b)'
    BY <1>1, <1>2, <1>3, <1>5, <1>6, <2>2 DEF InOrder, Current, Follows, server
  <2>4. Counts(b)'
    BY <1>1, <1>2, <1>3, <1>5, <1>6, <2>2 DEF InOrder, Counts, server
  <2>5. Serial(b)'
    BY <1>2, <1>5, <1>6, <2>2 DEF InOrder, Serial
  <2> QED BY <2>1, <2>3, <2>4, <2>5 DEF BoardsInOrder, InOrder
<1> QED BY <1>7, <1>8, <1>9, <1>10 DEF Inv

(* The first request leaves the queue, answered or given up.                *)
LEMMA PopStep ==
  ASSUME Inv, NEW b \in Boards, queue[b] # <<>>,
         queue' = [queue EXCEPT ![b] = Tail(@)],
         UNCHANGED <<server, auto, shown, batch, post, mail>>,
         late' \subseteq late \cup {Request(queue[b][1])},
         gate' \in [Boards -> Maybe], conflict' \in [Boards -> {NoConflict} \cup Conflicts],
         bounds' \in [moves : Nat, others : Nat], asked' \in [Boards -> BOOLEAN],
         mine' \in [Boards -> Maybe],
         \A d \in Boards : asked[d] => asked'[d],
         \A d \in Boards : mine'[d] # None => mine'[d] = mine[d],
         asked'[b] \/ queue[b][1].ans = "ok",
         mine'[b] = None \/ queue[b][1].ans = "ok"
  PROVE  Inv'
<1> DEFINE r == queue[b][1]
<1>1. /\ queue[b] \in Seq(Patches) /\ r \in Patches /\ Honest(r) /\ 1 \in DOMAIN queue[b]
      /\ Len(queue[b]) # 1 => Newest(queue[b]).ans = "none"
  BY QueueOf
<1>2. /\ Tail(queue[b]) \in Seq(Patches)
      /\ \A i \in DOMAIN Tail(queue[b]) :
           i \in Nat \ {0} /\ i + 1 \in DOMAIN queue[b] /\ Tail(queue[b])[i] = queue[b][i + 1]
      /\ Tail(queue[b]) # <<>> => Newest(Tail(queue[b])) = Newest(queue[b])
      /\ Tail(queue[b]) = <<>> => Newest(queue[b]) = r
  BY <1>1, QueueTail
<1>3. queue'[b] = Tail(queue[b]) /\ \A d \in Boards \ {b} : queue'[d] = queue[d]
  BY DEF Inv, TypeOK
<1>4. Request(r) \in Requests /\ Honest(Request(r))
  BY <1>1 DEF Request, Requests, Patches, Said, Honest
<1>5. TypeOK'
  <2>1. queue' \in [Boards -> Seq(Patches)]
    BY <1>2 DEF Inv, TypeOK
  <2>2. late' \subseteq Requests
    BY <1>4 DEF Inv, TypeOK
  <2> QED BY <2>1, <2>2 DEF Inv, TypeOK, server
<1>6. RequestsAreHonest'
  <2>1. \A i \in DOMAIN queue'[b] : Honest(queue'[b][i])
    BY <1>2, <1>3 DEF Inv, RequestsAreHonest
  <2>2. \A x \in late' : Honest(x)
    BY <1>4 DEF Inv, RequestsAreHonest
  <2> QED BY <1>3, <2>1, <2>2 DEF Inv, RequestsAreHonest
<1>7. SlipsAreCounted'
  BY DEF server, Inv, SlipsAreCounted, SlipPerDispatch
<1>8. BoardsInOrder'
  <2>1. \A d \in Boards \ {b} : InOrder(d)'
    BY <1>3, BoardKept DEF server, Inv, BoardsInOrder
  <2>2. InOrder(b)
    BY DEF Inv, BoardsInOrder
  <2> HIDE DEF r
  <2>3. Current(b)'
    BY <1>2, <1>3, <2>2 DEF InOrder, Current, Follows, server, r
  <2>4. Counts(b)'
    BY <1>2, <1>3, <2>2 DEF InOrder, Counts, server, r
  <2>5. Serial(b)'
    <3>1. ASSUME NEW i \in DOMAIN queue'[b] PROVE queue'[b][i].ans = "none"
      <4>1. i \in Nat \ {0} /\ i + 1 \in DOMAIN queue[b] /\ queue'[b][i] = queue[b][i + 1]
        BY <1>2, <1>3, <3>1
      <4>2. i + 1 # 1
        BY <4>1
      <4> QED BY <4>1, <4>2, <2>2 DEF InOrder, Serial
    <3> QED BY <3>1 DEF Serial
  <2> QED BY <2>1, <2>3, <2>4, <2>5 DEF BoardsInOrder, InOrder
<1> QED BY <1>5, <1>6, <1>7, <1>8 DEF Inv
LEMMA RefusedBoard ==
  ASSUME Inv, NEW b \in Boards, NEW r, r.seen \in Statuses, r.to \in Statuses, r.now \in Statuses,
         Refused(b, r)
  PROVE  /\ conflict' \in [Boards -> {NoConflict} \cup Conflicts]
         /\ gate' \in [Boards -> Maybe] /\ mine' \in [Boards -> Maybe]
         /\ mine'[b] = None /\ \A d \in Boards : mine'[d] # None => mine'[d] = mine[d]
<1>1. [seen |-> r.seen, wanted |-> r.to, current |-> r.now] \in Conflicts
  BY DEF Conflicts
<1>2. conflict' \in [Boards -> {NoConflict} \cup Conflicts]
  BY <1>1 DEF Refused, Inv, TypeOK
<1>3. gate' \in [Boards -> Maybe] /\ mine' \in [Boards -> Maybe]
  BY DEF Refused, Inv, TypeOK, Maybe
<1>4. mine'[b] = None /\ \A d \in Boards : mine'[d] # None => mine'[d] = mine[d]
  BY DEF Refused, Inv, TypeOK
<1> QED BY <1>2, <1>3, <1>4

LEMMA AnsweredStep ==
  ASSUME Inv, NEW b \in Boards, Answered(b)
  PROVE  Inv'
<1>1. queue[b] # <<>>
  BY DEF Answered
<1>2. Head(queue[b]) = queue[b][1] /\ queue[b][1] \in Patches
  BY <1>1, QueueOf
<1>3. /\ queue[b][1].ans # "none"
      /\ asked' = [asked EXCEPT ![b] = @ \/ AsksForBoard(queue[b][1], queue[b][1].ans = "ok")]
      /\ IF queue[b][1].ans = "refused" THEN Refused(b, queue[b][1])
         ELSE UNCHANGED <<conflict, gate, mine>>
      /\ queue' = [queue EXCEPT ![b] = Tail(@)]
      /\ UNCHANGED <<server, auto, late, shown, batch, post, mail, bounds>>
  BY <1>2 DEF Answered
<1>4. queue[b][1].to \in Statuses /\ queue[b][1].seen \in Statuses
      /\ queue[b][1].ans \in {"ok", "refused"} /\ queue[b][1].reopens \in BOOLEAN
      /\ queue[b][1].now \in Statuses
  BY <1>2, <1>3 DEF Patches, Said, Maybe
<1>5. /\ asked' \in [Boards -> BOOLEAN] /\ \A d \in Boards : asked[d] => asked'[d]
  BY <1>3, <1>4 DEF AsksForBoard, Inv, TypeOK
<1>6. asked'[b] \/ queue[b][1].ans = "ok"
  BY <1>3, <1>4 DEF AsksForBoard, Inv, TypeOK
<1>7. /\ conflict' \in [Boards -> {NoConflict} \cup Conflicts]
      /\ gate' \in [Boards -> Maybe] /\ mine' \in [Boards -> Maybe]
      /\ mine'[b] = None \/ queue[b][1].ans = "ok"
      /\ \A d \in Boards : mine'[d] # None => mine'[d] = mine[d]
  <2>1. CASE queue[b][1].ans = "refused"
    BY <1>3, <1>4, <2>1, RefusedBoard
  <2>2. CASE queue[b][1].ans # "refused"
    BY <1>3, <1>4, <2>2 DEF Inv, TypeOK
  <2> QED BY <2>1, <2>2
<1>8. bounds' \in [moves : Nat, others : Nat] /\ late' \subseteq late \cup {Request(queue[b][1])}
  BY <1>3 DEF Inv, TypeOK
<1> QED BY <1>1, <1>3, <1>5, <1>6, <1>7, <1>8, PopStep

LEMMA UnansweredStep == ASSUME Inv, NEW b \in Boards, Unanswered(b) PROVE Inv'
<1>1. queue[b] # <<>>
  BY DEF Unanswered
<1>2. Head(queue[b]) = queue[b][1] /\ queue[b][1] \in Patches
  BY <1>1, QueueOf
<1>3. /\ \/ UNCHANGED late
         \/ late' = late \cup {Request(queue[b][1])}
      /\ asked' = [asked EXCEPT ![b] = @ \/ AsksForBoard(queue[b][1], FALSE)]
      /\ queue' = [queue EXCEPT ![b] = Tail(@)]
      /\ mine' = [mine EXCEPT ![b] = None]
      /\ UNCHANGED <<server, auto, screen, post, mail>>
  BY <1>2 DEF Unanswered
<1>4. asked' \in [Boards -> BOOLEAN] /\ asked'[b] /\ \A d \in Boards : asked[d] => asked'[d]
  BY <1>3 DEF AsksForBoard, Inv, TypeOK
<1>5. /\ mine' \in [Boards -> Maybe] /\ mine'[b] = None
      /\ \A d \in Boards : mine'[d] # None => mine'[d] = mine[d]
  BY <1>3 DEF Inv, TypeOK, Maybe
<1>6. bounds' \in [moves : Nat, others : Nat]
  BY OnceCounts DEF Unanswered, Inv
<1>7. late' \subseteq late \cup {Request(queue[b][1])}
  BY <1>3
<1>8. /\ UNCHANGED <<shown, batch>>
      /\ gate' \in [Boards -> Maybe] /\ conflict' \in [Boards -> {NoConflict} \cup Conflicts]
  BY <1>3 DEF screen, Inv, TypeOK
<1> QED BY <1>1, <1>3, <1>4, <1>5, <1>6, <1>7, <1>8, PopStep

LEMMA RefreshStep == ASSUME Inv, NEW b \in Boards, Refresh(b) PROVE Inv'
<1>1. TypeOK'
  BY DEF Refresh, Inv, TypeOK, server
<1>2. RequestsAreHonest'
  BY DEF Refresh, Inv, RequestsAreHonest
<1>3. SlipsAreCounted'
  BY DEF Refresh, server, Inv, SlipsAreCounted, SlipPerDispatch
<1>4. BoardsInOrder'
  <2>1. \A d \in Boards \ {b} : InOrder(d)'
    BY BoardKept DEF Refresh, server, Inv, TypeOK, BoardsInOrder
  <2>2. InOrder(b)
    BY DEF Inv, BoardsInOrder
  <2>3. shown'[b] = status /\ status' = status /\ UNCHANGED <<batch, queue, mine>>
    BY DEF Refresh, server, Inv, TypeOK
  <2>4. Current(b)'
    BY <2>3 DEF Current, Follows
  <2>5. Counts(b)' /\ Serial(b)'
    BY <2>2, <2>3 DEF InOrder, Counts, Serial
  <2> QED BY <2>1, <2>4, <2>5 DEF BoardsInOrder, InOrder
<1> QED BY <1>1, <1>2, <1>3, <1>4 DEF Inv
LEMMA PostAnsweredStep == ASSUME Inv, NEW b \in Boards, PostAnswered(b) PROVE Inv'
<1>1. post[b] \in Posts
  BY DEF PostAnswered, NoPost, Inv, TypeOK
<1>2. post[b].to \in Statuses /\ post[b].seen \in Statuses /\ post[b].now \in Statuses
  BY <1>1 DEF PostAnswered, Posts, Said, Maybe
<1>3. /\ post' = [post EXCEPT ![b] = NoPost]
      /\ IF post[b].ans = "refused" THEN Refused(b, post[b]) ELSE UNCHANGED <<conflict, gate, mine>>
      /\ UNCHANGED <<server, auto, late, shown, batch, queue, asked, mail, bounds>>
  BY DEF PostAnswered
<1>4. /\ conflict' \in [Boards -> {NoConflict} \cup Conflicts]
      /\ gate' \in [Boards -> Maybe] /\ mine' \in [Boards -> Maybe]
      /\ \A d \in Boards : mine'[d] # None => mine'[d] = mine[d]
  <2>1. CASE post[b].ans = "refused"
    BY <1>2, <1>3, <2>1, RefusedBoard
  <2>2. CASE post[b].ans # "refused"
    BY <1>3, <2>2 DEF Inv, TypeOK
  <2> QED BY <2>1, <2>2
<1>5. post' \in [Boards -> {NoPost} \cup Posts] /\ bounds' \in [moves : Nat, others : Nat]
  BY <1>3 DEF Inv, TypeOK
<1>6. \A d \in Boards : post'[d] # NoPost => Honest(post'[d])
  BY <1>3 DEF Inv, TypeOK, RequestsAreHonest
<1> QED BY <1>3, <1>4, <1>5, <1>6, AsideStep

LEMMA PostUnansweredStep == ASSUME Inv, NEW b \in Boards, PostUnanswered(b) PROVE Inv'
<1>1. post[b] \in Posts /\ Honest(post[b])
  BY DEF PostUnanswered, Inv, TypeOK, RequestsAreHonest
<1>2. Request(post[b]) \in Requests /\ Honest(Request(post[b]))
  BY <1>1 DEF Request, Requests, Posts, Said, Honest, Maybe
<1>3. TypeOK'
  <2>1. late' \subseteq Requests /\ post' \in [Boards -> {NoPost} \cup Posts]
    BY <1>2 DEF PostUnanswered, Inv, TypeOK
  <2>2. bounds' \in [moves : Nat, others : Nat]
    BY OnceCounts DEF PostUnanswered, Inv
  <2> QED BY <2>1, <2>2 DEF PostUnanswered, Inv, TypeOK, server, screen
<1>4. RequestsAreHonest'
  BY <1>2 DEF PostUnanswered, Inv, TypeOK, RequestsAreHonest, screen
<1>5. SlipsAreCounted'
  BY DEF PostUnanswered, server, Inv, SlipsAreCounted, SlipPerDispatch
<1>6. BoardsInOrder'
  BY BoardKept DEF PostUnanswered, server, screen, Inv, BoardsInOrder
<1> QED BY <1>3, <1>4, <1>5, <1>6 DEF Inv

(* A PATCH carried out moves the card, refuses it or finds it there.        *)
LEMMA PatchedCard ==
  ASSUME Inv, NEW r, r.to \in Statuses, NEW by, Patched(r, by)
  PROVE  Accepts(r) => status' = r.to
  BY DEF Patched, Transition, Nothing, server

LEMMA ServeStep == ASSUME Inv, NEW b \in Boards, Serve(b) PROVE Inv'
<1> DEFINE r == queue[b][1]
           a == IF Accepts(r) THEN "ok" ELSE "refused"
           s == [r EXCEPT !.ans = a, !.now = status]
<1>1. queue[b] # <<>>
  BY DEF Serve
<1>2. /\ queue[b] \in Seq(Patches) /\ Head(queue[b]) = r /\ r \in Patches /\ 1 \in DOMAIN queue[b]
      /\ Honest(r)
  BY <1>1, QueueOf
<1>3. /\ r.ans = "none" /\ Patched(r, b)
      /\ queue' = [queue EXCEPT ![b][1].ans = a, ![b][1].now = status]
      /\ UNCHANGED <<auto, late, screen, post, asked, bounds>>
  BY <1>2 DEF Serve
<1>4. r.to \in Statuses
  BY <1>2 DEF Patches
<1>5. Moved(b)
  BY <1>3, <1>4, PatchedMoves
<1>6. a \in {"ok", "refused"} /\ status \in Statuses /\ status # None /\ status \in Maybe
  BY NoneAssumption DEF Inv, TypeOK, Maybe
<1>7. a = "ok" => status' = r.to
  BY <1>3, <1>4, PatchedCard
<1>8. queue'[b] = [queue[b] EXCEPT ![1] = s] /\ \A d \in Boards \ {b} : queue'[d] = queue[d]
  BY <1>2, <1>3 DEF Inv, TypeOK
<1> HIDE DEF a
<1>9. s \in Patches /\ Honest(s) /\ s.to = r.to /\ s.ans = a
  BY <1>2, <1>6 DEF Patches, Said, Honest
<1> HIDE DEF s
<1>10. /\ queue'[b] \in Seq(Patches) /\ queue'[b] # <<>>
       /\ DOMAIN queue'[b] = DOMAIN queue[b] /\ queue'[b][1] = s
       /\ \A i \in DOMAIN queue[b] : i # 1 => queue'[b][i] = queue[b][i]
       /\ Newest(queue'[b]) = IF Len(queue[b]) = 1 THEN s ELSE Newest(queue[b])
  BY <1>1, <1>2, <1>8, <1>9, QueueAnswered
<1>11. TypeOK'
  <2>1. queue' \in [Boards -> Seq(Patches)]
    <3>0. queue \in [Boards -> Seq(Patches)]
      BY DEF Inv, TypeOK
    <3>1. DOMAIN queue' = Boards /\ queue' = [d \in Boards |-> queue'[d]]
      BY <1>3, <3>0
    <3>2. \A d \in Boards : queue'[d] \in Seq(Patches)
      BY <1>8, <1>10 DEF Inv, TypeOK
    <3> QED BY <3>1, <3>2
  <2>2. /\ status' \in Statuses /\ dispatched' \in BOOLEAN /\ slips' \in Nat
        /\ mail' \in [Boards -> BOOLEAN] /\ mine' \in [Boards -> Maybe]
    BY <1>5, MovedServer DEF Inv
  <2>3. UNCHANGED <<auto, late, shown, batch, post, gate, conflict, asked, bounds>>
    BY <1>3 DEF screen
  <2> QED BY <2>1, <2>2, <2>3 DEF Inv, TypeOK
<1>12. RequestsAreHonest'
  <2>1. \A i \in DOMAIN queue'[b] : Honest(queue'[b][i])
    BY <1>9, <1>10 DEF Inv, RequestsAreHonest
  <2> QED BY <1>3, <1>8, <2>1 DEF Inv, RequestsAreHonest, screen
<1>13. SlipsAreCounted'
  BY <1>5, MovedServer DEF Inv
<1>14. /\ status' # status => \A d \in Boards : mail'[d]
       /\ \A d \in Boards : mail[d] => mail'[d]
       /\ \A d \in Boards : mine'[d] # None => mine'[d] = mine[d] /\ (d = b \/ status' = status)
  BY <1>5, MovedServer DEF Inv
<1>15. BoardsInOrder'
  <2>1. \A d \in Boards \ {b} : InOrder(d)'
    BY <1>3, <1>8, <1>14, BoardKept DEF screen, Inv, BoardsInOrder
  <2>2. InOrder(b)
    BY DEF Inv, BoardsInOrder
  <2>3. /\ Len(queue[b]) # 1 => Newest(queue[b]).ans = "none"
        /\ Len(queue[b]) = 1 => Newest(queue[b]) = r
    BY <1>1, QueueOf
  <2>4. UNCHANGED <<shown, batch, asked>>
    BY <1>3 DEF screen
  <2> HIDE DEF r
  <2>5. Current(b)'
    <3>1. CASE status' # status
      BY <1>14, <3>1 DEF Current
    <3>2. CASE status' = status
      BY <1>1, <1>3, <1>6, <1>7, <1>9, <1>10, <1>14, <2>2, <2>3, <2>4, <3>2
         DEF InOrder, Current, Follows
    <3> QED BY <3>1, <3>2
  <2>6. Counts(b)'
    <3>1. ASSUME mine'[b] # None, batch[b] = NoBatch
          PROVE  Newest(queue'[b]).to = mine'[b]
                 /\ (Newest(queue'[b]).ans = "ok" => status' = mine'[b])
      <4>1. mine'[b] = mine[b] /\ Newest(queue[b]).to = mine[b]
        BY <1>1, <1>14, <2>2, <3>1 DEF InOrder, Counts
      <4>2. CASE Len(queue[b]) = 1
        BY <1>7, <1>9, <1>10, <2>3, <4>1, <4>2
      <4>3. CASE Len(queue[b]) # 1
        BY <1>10, <2>3, <4>1, <4>3
      <4> QED BY <4>2, <4>3
    <3> QED BY <1>10, <1>14, <2>2, <2>4, <3>1 DEF InOrder, Counts
  <2>7. Serial(b)'
    BY <1>10, <2>2 DEF InOrder, Serial
  <2> QED BY <2>1, <2>5, <2>6, <2>7 DEF BoardsInOrder, InOrder
<1> QED BY <1>11, <1>12, <1>13, <1>15 DEF Inv
-----------------------------------------------------------------------------
LEMMA InitInv == ASSUME Init PROVE Inv
<1>1. TypeOK
  <2>1. "incoming" \in Statuses
    BY DEF Statuses
  <2>2. <<>> \in Seq(Patches)
    BY EmptySeq
  <2> QED BY <2>1, <2>2 DEF Init, TypeOK, Maybe
<1>2. RequestsAreHonest
  BY DEF Init, RequestsAreHonest
<1>3. SlipsAreCounted
  BY DEF Init, SlipsAreCounted, SlipPerDispatch, AutoPrint
<1>4. \A b \in Boards : InOrder(b)
  <2> TAKE b \in Boards
  <2>1. /\ batch[b] = NoBatch /\ queue[b] = <<>> /\ shown[b] = status /\ mine[b] = None
    BY DEF Init
  <2>2. DOMAIN queue[b] = {}
    BY <2>1
  <2> QED BY <2>1, <2>2 DEF InOrder, Current, Follows, Counts, Serial
<1> QED BY <1>1, <1>2, <1>3, <1>4 DEF Inv, BoardsInOrder

LEMMA StutterInv == ASSUME Inv, UNCHANGED vars PROVE Inv'
<1>1. TypeOK'
  BY DEF vars, server, screen, Inv, TypeOK
<1>2. RequestsAreHonest'
  BY DEF vars, server, screen, Inv, RequestsAreHonest
<1>3. SlipsAreCounted'
  BY DEF vars, server, Inv, SlipsAreCounted, SlipPerDispatch
<1>4. BoardsInOrder'
  BY BoardKept DEF vars, server, screen, Inv, BoardsInOrder
<1> QED BY <1>1, <1>2, <1>3, <1>4 DEF Inv

LEMMA NextInv == ASSUME Inv, [Next]_vars PROVE Inv'
<1>1. ASSUME NEW b \in Boards, Operator(b) PROVE Inv'
  BY <1>1, MoveStep, CancelStep, GateStandsStep, InsistStep, KeepStep DEF Operator
<1>2. ASSUME NEW b \in Boards, Prompts(b) PROVE Inv'
  BY <1>2, PromptedStep DEF Prompts
<1>3. ASSUME NEW b \in Boards, Flush(b) \/ Serve(b) \/ Answered(b) \/ Unanswered(b) PROVE Inv'
  BY <1>3, FlushStep, ServeStep, AnsweredStep, UnansweredStep
<1>4. ASSUME NEW b \in Boards, PostServed(b) \/ PostAnswered(b) \/ PostUnanswered(b) \/ Refresh(b)
      PROVE  Inv'
  BY <1>4, PostServedStep, PostAnsweredStep, PostUnansweredStep, RefreshStep
<1>5. ASSUME NEW r \in late, LateArrives(r) PROVE Inv'
  BY <1>5, LateArrivesStep
<1>6. ASSUME NEW m \in Movers, Reads(m) \/ Moves(m) PROVE Inv'
  BY <1>6, ReadsStep, MovesStep
<1>7. CASE FieldCompletes
  BY <1>7, FieldCompletesStep
<1>8. CASE RekoAssigned
  BY <1>8, RekoAssignedStep
<1>9. CASE UNCHANGED vars
  BY <1>9, StutterInv
<1> QED BY <1>1, <1>2, <1>3, <1>4, <1>5, <1>6, <1>7, <1>8, <1>9 DEF Next

(* The inductive invariant holds in every reachable state, whatever the     *)
(* boards, the field and the GPS automation do to the card (crud/incidents, *)
(* incident-actions.ts).                                                    *)
THEOREM Invariance == Spec => []Inv
<1>1. Init => Inv
  BY InitInv
<1>2. Inv /\ [Next]_vars => Inv'
  BY NextInv
<1> QED BY <1>1, <1>2, PTL DEF Spec

(* Every variable keeps its type: a request in a queue names the status its *)
(* operator started from, an answer the status the server found.            *)
THEOREM TypeCorrect == Spec => []TypeOK
<1>1. Inv => TypeOK
  BY DEF Inv
<1> QED BY <1>1, Invariance, PTL

(* What a board was last told is what the server holds once the board has   *)
(* nothing under way, if nobody else moved the card: one request at a time, *)
(* in the order of the moves (KeyedSerialQueue).                            *)
THEOREM OwnMovesCorrect == Spec => []OwnMovesInOrder
<1>1. Inv => OwnMovesInOrder
  BY DEF Inv, BoardsInOrder, InOrder, Counts, OwnMovesInOrder, Idle
<1> QED BY <1>1, Invariance, PTL

(* No refused, failed, lost or overtaken move stays on a board for good: a  *)
(* board in the wrong has its own request under way or a load owed to it    *)
(* (`refreshOperations`, the broadcast after a commit).                     *)
THEOREM NoBoardLeftBehindCorrect == Spec => []NoBoardLeftBehind
<1>1. Inv => NoBoardLeftBehind
  BY DEF Inv, BoardsInOrder, InOrder, Current, Follows, NoBoardLeftBehind, Idle
<1> QED BY <1>1, Invariance, PTL

(* One Einsatzzettel with the first dispatch and none later, for any order  *)
(* of moves by anybody (`_dispatch_print_due`).                             *)
THEOREM SlipCorrect == Spec => []SlipPerDispatch
<1>1. Inv => SlipPerDispatch
  BY DEF Inv, SlipsAreCounted
<1> QED BY <1>1, Invariance, PTL

LEMMA AcceptedWasSeen ==
  ASSUME Inv, NEW r, Honest(r), NEW by, Patched(r, by)
  PROVE  Leaves(r)
<1>1. status # None
  BY NoneAssumption DEF Inv, TypeOK
<1>2. CASE status' = status
  BY <1>2 DEF Leaves
<1>3. CASE status' # status
  <2>1. r.to # status /\ Accepts(r)
    BY <1>3 DEF Patched, Nothing, server
  <2> QED BY <1>1, <2>1 DEF Accepts, Honest, Leaves
<1> QED BY <1>2, <1>3

(* No request, however late, is carried out over a status its operator did  *)
(* not have in view or confirm: the guard compares with exactly what was    *)
(* shown or confirmed, and what a batch sends is what was shown at its      *)
(* first edit (`_guard_seen_status`, updateOperation).                      *)
THEOREM OnlySeenCorrect == Spec => OnlySeenMoves
<1> DEFINE A == /\ \A b \in Boards : Serve(b) => Leaves(Head(queue[b]))
                /\ \A b \in Boards : PostServed(b) => Leaves(post[b])
                /\ \A r \in late : LateArrives(r) => Leaves(r)
<1>1. ASSUME Inv PROVE A
  <2>1. ASSUME NEW b \in Boards, Serve(b) PROVE Leaves(Head(queue[b]))
    <3>1. queue[b] # <<>> /\ Patched(Head(queue[b]), b)
      BY <2>1 DEF Serve
    <3>2. Honest(Head(queue[b]))
      BY <1>1, <3>1, QueueOf
    <3> QED BY <1>1, <3>1, <3>2, AcceptedWasSeen
  <2>2. ASSUME NEW b \in Boards, PostServed(b) PROVE Leaves(post[b])
    <3>1. Honest(post[b])
      BY <1>1, <2>2 DEF PostServed, Inv, RequestsAreHonest
    <3>2. status # None
      BY <1>1, NoneAssumption DEF Inv, TypeOK
    <3>3. CASE Accepts(post[b])
      <4>1. status' = post[b].to
        BY <2>2, <3>3 DEF PostServed, Transition
      <4> QED BY <3>1, <3>2, <3>3, <4>1 DEF Accepts, Honest, Leaves
    <3>4. CASE ~Accepts(post[b])
      BY <2>2, <3>4 DEF PostServed, Nothing, server, Leaves
    <3> QED BY <3>3, <3>4
  <2>3. ASSUME NEW r \in late, LateArrives(r) PROVE Leaves(r)
    <3>1. Honest(r)
      BY <1>1 DEF Inv, RequestsAreHonest
    <3> QED BY <1>1, <2>3, <3>1, AcceptedWasSeen DEF LateArrives
  <2> QED BY <2>1, <2>2, <2>3
<1>2. Inv /\ [Next]_vars => [A]_vars
  BY <1>1
<1> HIDE DEF A
<1>3. Spec => [][A]_vars
  BY <1>2, Invariance, PTL DEF Spec
<1> QED BY <1>3 DEF A, OnlySeenMoves

LEMMA CompleteIsLast == Rank["complete"] = 7 /\ Rank["returning"] = 6
<1>1. ASSUME NEW s \in Statuses, NEW i \in 1..7, Flow[i] = s,
             \A j \in 1..7 : Flow[j] = s => j = i
      PROVE  Rank[s] = i
  BY <1>1 DEF Rank
<1>2. Flow[7] = "complete" /\ \A j \in 1..7 : Flow[j] = "complete" => j = 7
  BY DEF Flow
<1>3. Flow[6] = "returning" /\ \A j \in 1..7 : Flow[j] = "returning" => j = 6
  BY DEF Flow
<1>4. "complete" \in Statuses /\ "returning" \in Statuses
  BY DEF Statuses
<1> QED BY <1>1, <1>2, <1>3, <1>4

(* Neither «Angekommen» nor «Einsatz beendet» closes or reopens a card,     *)
(* whatever happened to it since the tap looked at it (`_auto_move`, the    *)
(* refusal of a reopening nobody asked for).                                *)
THEOREM FieldCorrect == Spec => FieldNeverTouchesComplete
<1> DEFINE A == Moves("arrival") \/ FieldCompletes => (status = "complete" <=> status' = "complete")
<1>1. ASSUME Moves("arrival") PROVE A
  <2>1. CASE Raises("arrival")
    BY <1>1, <2>1 DEF Moves, Nothing, server
  <2>2. CASE ~Raises("arrival")
    <3>1. status # "complete"
      BY <2>2 DEF Raises
    <3>2. status' = "active"
      BY <1>1, <2>2 DEF Moves, Transition
    <3> QED BY <3>1, <3>2
  <2> QED BY <2>1, <2>2
<1>2. ASSUME FieldCompletes PROVE A
  <2>1. status # "complete"
    BY <1>2, CompleteIsLast DEF FieldCompletes
  <2>2. status' = "returning"
    BY <1>2 DEF FieldCompletes, Transition
  <2> QED BY <2>1, <2>2
<1>3. A
  BY <1>1, <1>2
<1> HIDE DEF A
<1>4. [Next]_vars => [A]_vars
  BY <1>3
<1>5. Spec => [][A]_vars
  BY <1>4, PTL DEF Spec
<1> QED BY <1>5 DEF A, FieldNeverTouchesComplete
=============================================================================
