-------------------------- MODULE PrintQueueProofs --------------------------
(* Theorems about PrintQueue, for any number of jobs and agents, any times *)
(* and any number of faults.                                               *)
EXTENDS PrintQueue, TLAPS

\* From the claim on an agent has a job in hand.
JobInHand ==
    \A a \in Agents : agents[a].step \notin {"idle", "claiming"} => agents[a].job \in Jobs

\* An agent reports "completed" only of a job whose paper came out.
OkMeansPaper ==
    \A a \in Agents :
        agents[a].outcome = "ok" => agents[a].job \in Jobs /\ paper[agents[a].job] > 0

\* What an agent has on its list is fresh or not to be had: the expiry ran
\* before the list was made, and no time passes until the claim.
ListIsFresh ==
    \A a \in Agents : agents[a].step = "claiming" =>
        \A j \in agents[a].list :
            jobs[j].status = "pending" => Ttl[j] = Forever \/ jobs[j].created <= Ttl[j]

IInv == TypeOK /\ JobInHand /\ OkMeansPaper /\ CompletedMeansPaper /\ ListIsFresh

-----------------------------------------------------------------------------
(* Rows and agents. *)

LEMMA Constants ==
    /\ Jobs \subseteq Nat
    /\ Horizon \in Nat /\ MaxFaults \in Nat /\ MaxAttempts \in Nat
    /\ StaleTimeout \in Nat /\ RetryDelay \in Nat /\ RequeueMaxAge \in Nat
    /\ ReportAttempts \in Nat /\ ReportTimeout \in Nat /\ PrintTime \in Nat
    /\ \A j \in Jobs : Ttl[j] \in Nat \cup {Forever}
BY JobsAreNumbered, TimesAreNumbers

LEMMA RowFields ==
    ASSUME NEW s \in JobStatus, NEW n \in Nat, NEW c \in Age
    PROVE  /\ Row(s, n, c) \in PrintJob
           /\ Row(s, n, c).status = s
           /\ Row(s, n, c).retry = n
           /\ Row(s, n, c).created = c
BY Constants DEF Row, PrintJob, Age

LEMMA AtFields ==
    ASSUME NEW t \in {"idle", "claiming", "printing", "report", "sent", "answered"},
           NEW j \in Jobs \cup {-1}, NEW o \in Outcome, NEW n \in Nat
    PROVE  /\ At(t, j, o, n) \in AgentState
           /\ At(t, j, o, n).step = t
           /\ At(t, j, o, n).list = {}
           /\ At(t, j, o, n).job = j
           /\ At(t, j, o, n).outcome = o
           /\ At(t, j, o, n).attempt = n
BY DEF At, AgentState, Unread, Seen, JobStatus

LEMMA IdleFields ==
    /\ Idle \in AgentState
    /\ Idle.step = "idle"
    /\ Idle.outcome = "none"
BY AtFields DEF Idle, Outcome

\* A requeued row is one of the table again, and the reaper completes nothing.
LEMMA RequeuedRow ==
    ASSUME NEW job \in PrintJob
    PROVE  /\ Requeued(job) \in PrintJob
           /\ Requeued(job).status = "completed" => job.status = "completed"
<1>1. job.retry \in Nat /\ job.retry + 1 \in Nat /\ job.created \in Age
  BY DEF PrintJob
<1>2. "pending" \in JobStatus
  BY DEF JobStatus
<1>. QED
  BY <1>1, <1>2, RowFields DEF Requeued

\* After the expiry a pending row is within its time to live.
LEMMA ExpiredRow ==
    ASSUME NEW job \in PrintJob, NEW ttl \in Nat \cup {Forever}
    PROVE  /\ Expired(job, ttl) \in PrintJob
           /\ Expired(job, ttl).status = "completed" => job.status = "completed"
           /\ Expired(job, ttl).status = "pending" =>
                 ttl = Forever \/ Expired(job, ttl).created <= ttl
<1>1. CASE job.status = "pending" /\ ttl # Forever /\ job.created > ttl
  <2>1. Expired(job, ttl) = [job EXCEPT !.status = "expired"]
    BY <1>1 DEF Expired
  <2>. QED
    BY <2>1 DEF PrintJob, JobStatus
<1>2. CASE ~(job.status = "pending" /\ ttl # Forever /\ job.created > ttl)
  <2>1. Expired(job, ttl) = job
    BY <1>2 DEF Expired
  <2>2. job.status = "pending" /\ ttl # Forever => job.created <= ttl
    BY <1>2, Constants DEF PrintJob, Age
  <2>. QED
    BY <2>1, <2>2
<1>. QED
  BY <1>1, <1>2

LEMMA ReapedRows ==
    ASSUME jobs \in [Jobs -> PrintJob]
    PROVE  /\ Reaped \in [Jobs -> PrintJob]
           /\ \A j \in Jobs :
                 /\ Reaped[j].status = "completed" => jobs[j].status = "completed"
                 /\ Reaped[j].status = "pending" =>
                       Ttl[j] = Forever \/ Reaped[j].created <= Ttl[j]
<1>1. ASSUME NEW j \in Jobs
      PROVE  /\ Reaped[j] \in PrintJob
             /\ Reaped[j].status = "completed" => jobs[j].status = "completed"
             /\ Reaped[j].status = "pending" =>
                   Ttl[j] = Forever \/ Reaped[j].created <= Ttl[j]
  <2>1. jobs[j] \in PrintJob /\ Ttl[j] \in Nat \cup {Forever}
    BY Constants
  <2>2. Requeued(jobs[j]) \in PrintJob
    BY <2>1, RequeuedRow
  <2>3. Reaped[j] = Expired(Requeued(jobs[j]), Ttl[j])
    BY DEF Reaped
  <2>4. Requeued(jobs[j]).status = "completed" => jobs[j].status = "completed"
    BY <2>1, RequeuedRow
  <2>5. /\ Reaped[j] \in PrintJob
        /\ Reaped[j].status = "completed" => Requeued(jobs[j]).status = "completed"
        /\ Reaped[j].status = "pending" => Ttl[j] = Forever \/ Reaped[j].created <= Ttl[j]
    BY <2>1, <2>2, <2>3, ExpiredRow
  <2>. QED
    BY <2>4, <2>5
<1>2. Reaped = [j \in Jobs |-> Reaped[j]]
  BY DEF Reaped
<1>. QED
  BY <1>1, <1>2

\* Time changes no status.
LEMMA AgedRow ==
    ASSUME NEW job \in PrintJob
    PROVE  Aged(job) \in PrintJob /\ Aged(job).status = job.status
<1>1. \A age \in Age : Older(age) \in Age
  BY Constants DEF Older, Age
<1>. QED
  BY <1>1 DEF Aged, PrintJob

\* A report completes a job only if it says so.
LEMMA ReportedRow ==
    ASSUME NEW row \in PrintJob, NEW s \in AgentState
    PROVE  /\ Reported(row, s) \in PrintJob
           /\ Reported(row, s).status # "pending"
           /\ Reported(row, s).status = "completed" => s.outcome = "ok"
<1>1. /\ row.retry \in Nat /\ row.created \in Age
      /\ s.seen.retry + 1 \in Nat
      /\ s.outcome \in Outcome
  BY DEF PrintJob, AgentState, Seen
<1>2. {"completed", "failed"} \subseteq JobStatus
  BY DEF JobStatus
<1>3. CASE s.outcome = "ok"
  <2>1. Reported(row, s) = Row("completed", row.retry, row.created)
    BY <1>3 DEF Reported
  <2>. QED
    BY <1>1, <1>2, <1>3, <2>1, RowFields
<1>4. CASE s.outcome = "unreachable"
  <2>1. Reported(row, s) = Row("failed", row.retry, row.created)
    BY <1>4 DEF Reported
  <2>. QED
    BY <1>1, <1>2, <2>1, RowFields
<1>5. CASE s.outcome \notin {"ok", "unreachable"}
  <2>1. Reported(row, s) = Row("failed", s.seen.retry + 1, row.created)
    BY <1>5 DEF Reported
  <2>. QED
    BY <1>1, <1>2, <2>1, RowFields
<1>. QED
  BY <1>3, <1>4, <1>5

-----------------------------------------------------------------------------
(* The invariant. *)

LEMMA InitIInv == Init => IInv
<1>. SUFFICES ASSUME Init PROVE IInv
  OBVIOUS
<1>1. Row("absent", 0, 0) \in PrintJob /\ Row("absent", 0, 0).status = "absent"
  BY RowFields, Constants DEF JobStatus, Age
<1>2. TypeOK
  BY <1>1, Constants, IdleFields DEF Init, TypeOK
<1>. QED
  BY <1>1, <1>2, IdleFields
     DEF Init, IInv, JobInHand, OkMeansPaper, CompletedMeansPaper, ListIsFresh

FreshIn(js, j) == js[j].status = "pending" => Ttl[j] = Forever \/ js[j].created <= Ttl[j]

\* A step of one agent keeps the invariant if the state it enters does, every
\* completed job has its paper, and every pending row is fresh or untouched.
LEMMA AgentStep ==
    ASSUME IInv, NEW a \in Agents, NEW s \in AgentState,
           agents' = [agents EXCEPT ![a] = s],
           s.step \notin {"idle", "claiming"} => s.job \in Jobs,
           s.outcome = "ok" => s.job \in Jobs /\ paper'[s.job] > 0,
           s.step = "claiming" => \A j \in s.list : FreshIn(jobs', j),
           jobs' \in [Jobs -> PrintJob],
           \A j \in Jobs : FreshIn(jobs', j) \/ jobs'[j] = jobs[j],
           \A j \in Jobs : jobs'[j].status = "completed" => paper'[j] > 0,
           paper' \in [Jobs -> 0..2],
           \A j \in Jobs : paper'[j] >= paper[j],
           failed' \in [Jobs -> Nat],
           faults' \in 0..MaxFaults,
           unheard' \subseteq Jobs
    PROVE  IInv'
<1>1. /\ agents \in [Agents -> AgentState]
      /\ paper \in [Jobs -> 0..2]
  BY DEF IInv, TypeOK
<1>2. agents'[a] = s /\ \A b \in Agents \ {a} : agents'[b] = agents[b]
  BY <1>1
<1>3. TypeOK'
  BY <1>1 DEF TypeOK
<1>4. JobInHand'
  BY <1>2 DEF IInv, JobInHand
<1>5. OkMeansPaper'
  <2>1. ASSUME NEW b \in Agents, agents'[b].outcome = "ok", b # a
        PROVE  agents'[b].job \in Jobs /\ paper'[agents'[b].job] > 0
    <3>1. agents[b].job \in Jobs /\ paper[agents[b].job] > 0 /\ agents'[b] = agents[b]
      BY <2>1, <1>2 DEF IInv, OkMeansPaper
    <3>. QED
      BY <3>1, <1>1
  <2>. QED
    BY <2>1, <1>2 DEF OkMeansPaper
<1>6. CompletedMeansPaper'
  BY DEF CompletedMeansPaper
<1>7. ListIsFresh'
  <2>1. ASSUME NEW b \in Agents, b # a, agents'[b].step = "claiming", NEW j \in agents'[b].list
        PROVE  FreshIn(jobs', j)
    <3>1. agents'[b] = agents[b] /\ agents[b] \in AgentState
      BY <2>1, <1>1, <1>2
    <3>2. j \in Jobs
      BY <3>1, <2>1 DEF AgentState
    <3>3. FreshIn(jobs, j)
      BY <3>1, <2>1 DEF IInv, ListIsFresh, FreshIn
    <3>. QED
      BY <3>2, <3>3 DEF FreshIn
  <2>2. ASSUME NEW b \in Agents, agents'[b].step = "claiming", NEW j \in agents'[b].list
        PROVE  FreshIn(jobs', j)
    BY <2>1, <2>2, <1>2
  <2>. QED
    BY <2>2 DEF ListIsFresh, FreshIn
<1>. QED
  BY <1>3, <1>4, <1>5, <1>6, <1>7 DEF IInv

\* The same for a step that leaves the rows and the paper alone.
LEMMA QuietStep ==
    ASSUME IInv, NEW a \in Agents, NEW s \in AgentState,
           agents' = [agents EXCEPT ![a] = s],
           s.step \notin {"idle", "claiming"} => s.job \in Jobs,
           s.outcome = "ok" => s.job \in Jobs /\ paper[s.job] > 0,
           s.step = "claiming" =>
              /\ agents[a].step = "claiming"
              /\ s.list \subseteq agents[a].list,
           UNCHANGED <<jobs, paper>>,
           failed' \in [Jobs -> Nat],
           faults' \in 0..MaxFaults,
           unheard' \subseteq Jobs
    PROVE  IInv'
<1>1. /\ jobs' \in [Jobs -> PrintJob]
      /\ paper' \in [Jobs -> 0..2]
      /\ \A j \in Jobs : jobs'[j] = jobs[j] /\ paper'[j] >= paper[j]
  BY DEF IInv, TypeOK
<1>2. \A j \in Jobs : jobs'[j].status = "completed" => paper'[j] > 0
  BY DEF IInv, CompletedMeansPaper
<1>3. s.step = "claiming" => \A j \in s.list : FreshIn(jobs', j)
  BY DEF IInv, ListIsFresh, FreshIn
<1>. QED
  BY <1>1, <1>2, <1>3, AgentStep

LEMMA PollStep == ASSUME IInv, NEW a \in Agents, Poll(a) PROVE IInv'
<1>. DEFINE next == IF Pending(Reaped) = {} THEN Idle
                    ELSE [At("claiming", -1, "none", 0) EXCEPT !.list = Pending(Reaped)]
<1>1. jobs \in [Jobs -> PrintJob] /\ failed \in [Jobs -> Nat]
  BY DEF IInv, TypeOK
<1>2. /\ jobs' \in [Jobs -> PrintJob]
      /\ \A j \in Jobs : FreshIn(jobs', j)
      /\ \A j \in Jobs : jobs'[j].status = "completed" => paper'[j] > 0
  BY <1>1, ReapedRows DEF Poll, FreshIn, IInv, CompletedMeansPaper
<1>3. /\ next \in AgentState
      /\ next.step \in {"idle", "claiming"}
      /\ next.outcome = "none"
      /\ next.list \subseteq Jobs
  <2>1. CASE Pending(Reaped) = {}
    BY <2>1, IdleFields DEF AgentState
  <2>2. CASE Pending(Reaped) # {}
    <3>. DEFINE empty == At("claiming", -1, "none", 0)
    <3>1. empty \in AgentState /\ empty.step = "claiming" /\ empty.outcome = "none"
      BY AtFields DEF Outcome
    <3>2. Pending(Reaped) \subseteq Jobs
      BY DEF Pending
    <3>3. next = [empty EXCEPT !.list = Pending(Reaped)]
      BY <2>2
    <3>. HIDE DEF empty
    <3>. QED
      BY <3>1, <3>2, <3>3 DEF AgentState
  <2>. QED
    BY <2>1, <2>2
<1>4. agents' = [agents EXCEPT ![a] = next]
  BY DEF Poll
<1>5. /\ failed' \in [Jobs -> Nat]
      /\ faults' \in 0..MaxFaults /\ unheard' \subseteq Jobs
      /\ paper' \in [Jobs -> 0..2] /\ \A j \in Jobs : paper'[j] >= paper[j]
  BY <1>1 DEF Poll, IInv, TypeOK
<1>. HIDE DEF next
<1>. QED
  BY <1>2, <1>3, <1>4, <1>5, AgentStep

\* What holds of the agent that is at job j.
LEMMA Claiming ==
    ASSUME IInv, NEW a \in Agents, NEW j \in Jobs, jobs[j].status = "pending"
    PROVE  /\ Claimed(j) \in [Jobs -> PrintJob]
           /\ \A k \in Jobs : Claimed(j)[k].status = "completed" => paper[k] > 0
           /\ \A k \in Jobs : FreshIn(Claimed(j), k) \/ Claimed(j)[k] = jobs[k]
<1>. DEFINE row == Row("printing", jobs[j].retry, jobs[j].created)
<1>1. jobs \in [Jobs -> PrintJob]
  BY DEF IInv, TypeOK
<1>2. jobs[j].retry \in Nat /\ jobs[j].created \in Age /\ "printing" \in JobStatus
  BY <1>1 DEF PrintJob, JobStatus
<1>3. row \in PrintJob /\ row.status = "printing"
  BY <1>2, RowFields
<1>4. Claimed(j) = [jobs EXCEPT ![j] = row]
  BY DEF Claimed
<1>. HIDE DEF row
<1>5. /\ Claimed(j) \in [Jobs -> PrintJob] /\ Claimed(j)[j] = row
      /\ \A k \in Jobs \ {j} : Claimed(j)[k] = jobs[k]
  BY <1>1, <1>3, <1>4
<1>. QED
  BY <1>3, <1>5 DEF FreshIn, IInv, CompletedMeansPaper

LEMMA ClaimStep ==
    ASSUME IInv, NEW a \in Agents, NEW j \in Jobs, Claim(a, j) \/ ClaimUnheard(a, j)
    PROVE  IInv'
<1>. DEFINE working == At("printing", j, "none", 0)
<1>1. /\ jobs[j].status = "pending" /\ jobs' = Claimed(j) /\ UNCHANGED <<paper, failed, unheard>>
      /\ faults' \in 0..MaxFaults
  BY Constants DEF Claim, ClaimUnheard, IInv, TypeOK
<1>2. /\ paper' \in [Jobs -> 0..2] /\ \A k \in Jobs : paper'[k] >= paper[k]
      /\ failed' \in [Jobs -> Nat] /\ unheard' \subseteq Jobs
  BY <1>1 DEF IInv, TypeOK
<1>3. /\ working \in AgentState /\ working.step = "printing"
      /\ working.job = j /\ working.outcome = "none"
  BY AtFields DEF Outcome
<1>4. agents' = [agents EXCEPT ![a] = working] \/ agents' = [agents EXCEPT ![a] = Idle]
  BY DEF Claim, ClaimUnheard
<1>. HIDE DEF working
<1>. QED
  BY <1>1, <1>2, <1>3, <1>4, IdleFields, Claiming, AgentStep

LEMMA ClaimRefusedStep ==
    ASSUME IInv, NEW a \in Agents, NEW j \in Jobs, ClaimRefused(a, j)
    PROVE  IInv'
<1>. DEFINE rest == agents[a].list \ {j}
            less == [agents[a] EXCEPT !.list = rest]
<1>1. agents \in [Agents -> AgentState] /\ agents[a] \in AgentState
  BY DEF IInv, TypeOK
<1>2. /\ less \in AgentState /\ less.step = agents[a].step /\ less.list = rest
      /\ less.outcome = agents[a].outcome /\ less.job = agents[a].job
  BY <1>1 DEF AgentState
<1>3. agents[a].step = "claiming"
  BY DEF ClaimRefused, AtHand
<1>4. agents' = [agents EXCEPT ![a] = less] \/ agents' = [agents EXCEPT ![a] = Idle]
  BY DEF ClaimRefused
<1>5. less.outcome = "ok" => less.job \in Jobs /\ paper[less.job] > 0
  BY <1>2 DEF IInv, OkMeansPaper
<1>6. /\ UNCHANGED <<jobs, paper>> /\ failed' \in [Jobs -> Nat]
      /\ faults' \in 0..MaxFaults /\ unheard' \subseteq Jobs
  BY DEF ClaimRefused, IInv, TypeOK
<1>7. less.list \subseteq agents[a].list
  BY <1>2
<1>. HIDE DEF less, rest
<1>. QED
  BY <1>2, <1>3, <1>4, <1>5, <1>6, <1>7, IdleFields, QuietStep

LEMMA OneMoreIsMore == \A n \in 0..2 : OneMore(n) \in 1..2 /\ OneMore(n) >= n
BY DEF OneMore

LEMMA PrintStep == ASSUME IInv, NEW a \in Agents, Printing(a) PROVE IInv'
<1>. DEFINE j == agents[a].job
<1>1. agents[a].step = "printing"
  BY DEF Printing, PrintOk, PrintFails
<1>2. j \in Jobs
  BY <1>1 DEF IInv, JobInHand
<1>3. /\ jobs \in [Jobs -> PrintJob] /\ paper \in [Jobs -> 0..2]
      /\ failed \in [Jobs -> Nat] /\ UNCHANGED <<jobs, faults, unheard>>
      /\ faults' \in 0..MaxFaults /\ unheard' \subseteq Jobs
  BY DEF Printing, PrintOk, PrintFails, IInv, TypeOK
<1>4. CASE PrintOk(a)
  <2>. DEFINE done == At("report", j, "ok", 0)
  <2>1. /\ done \in AgentState /\ done.step = "report"
        /\ done.job = j /\ done.outcome = "ok"
    BY <1>2, AtFields DEF Outcome
  <2>2. /\ paper' = [paper EXCEPT ![j] = OneMore(paper[j])]
        /\ agents' = [agents EXCEPT ![a] = done] /\ failed' = failed
    BY <1>4 DEF PrintOk
  <2>. HIDE DEF done, j
  <2>3. /\ paper' \in [Jobs -> 0..2] /\ \A k \in Jobs : paper'[k] >= paper[k]
        /\ paper'[j] > 0
    BY <1>2, <1>3, <2>2, OneMoreIsMore
  <2>4. \A k \in Jobs : jobs'[k].status = "completed" => paper'[k] > 0
    BY <1>3, <2>3 DEF IInv, CompletedMeansPaper
  <2>. QED
    BY <1>2, <1>3, <2>1, <2>2, <2>3, <2>4, AgentStep
<1>5. ASSUME NEW why \in {"refused", "unreachable"}, PrintFails(a, why)
      PROVE  IInv'
  <2>. DEFINE done == At("report", j, why, 0)
  <2>1. /\ done \in AgentState /\ done.step = "report"
        /\ done.job = j /\ done.outcome = why
    BY <1>2, AtFields DEF Outcome
  <2>2. agents' = [agents EXCEPT ![a] = done] /\ paper' = paper
    BY <1>5 DEF PrintFails
  <2>3. failed' \in [Jobs -> Nat]
    BY <1>2, <1>3, <1>5 DEF PrintFails
  <2>. HIDE DEF done, j
  <2>. QED
    BY <1>2, <1>3, <2>1, <2>2, <2>3, QuietStep
<1>. QED
  BY <1>4, <1>5 DEF Printing

LEMMA BreakOffStep == ASSUME IInv, NEW a \in Agents, PrintBreaksOff(a) PROVE IInv'
<1>. DEFINE j == agents[a].job
<1>1. /\ agents \in [Agents -> AgentState] /\ jobs \in [Jobs -> PrintJob]
      /\ paper \in [Jobs -> 0..2] /\ j \in Jobs
  BY DEF PrintBreaksOff, IInv, TypeOK, JobInHand
<1>2. paper' = [paper EXCEPT ![j] = OneMore(paper[j])] /\ UNCHANGED <<jobs, agents, failed>>
  BY DEF PrintBreaksOff
<1>3. faults' \in 0..MaxFaults
  <2>1. faults \in 0..MaxFaults /\ faults < MaxFaults /\ faults' = faults + 1
    BY DEF PrintBreaksOff, IInv, TypeOK
  <2>. QED
    BY <2>1, Constants
<1>8. unheard' \subseteq Jobs
  BY <1>1 DEF PrintBreaksOff, IInv, TypeOK
<1>. HIDE DEF j
<1>4. paper' \in [Jobs -> 0..2] /\ \A k \in Jobs : paper'[k] >= paper[k]
  BY <1>1, <1>2, OneMoreIsMore
<1>5. TypeOK'
  BY <1>2, <1>3, <1>4, <1>8 DEF IInv, TypeOK
<1>6. JobInHand' /\ ListIsFresh'
  BY <1>2 DEF IInv, JobInHand, ListIsFresh
<1>7. OkMeansPaper' /\ CompletedMeansPaper'
  BY <1>1, <1>2, <1>4 DEF IInv, OkMeansPaper, CompletedMeansPaper
<1>. QED
  BY <1>5, <1>6, <1>7 DEF IInv

\* An agent that moves on with its report.
LEMMA ReportMoves ==
    ASSUME IInv, NEW a \in Agents, agents[a].step \in {"printing", "report", "sent", "answered"},
           NEW t \in {"report", "sent"}, NEW n \in Nat
    PROVE  LET s == At(t, agents[a].job, agents[a].outcome, n)
           IN  /\ s \in AgentState /\ s.step = t /\ s.job \in Jobs
               /\ s.outcome = "ok" => paper[s.job] > 0
<1>1. agents[a].job \in Jobs /\ agents[a].outcome \in Outcome
  BY DEF IInv, TypeOK, JobInHand, AgentState
<1>. QED
  BY <1>1, AtFields DEF IInv, OkMeansPaper

LEMMA SendReportStep == ASSUME IInv, NEW a \in Agents, SendReport(a) PROVE IInv'
<1>. DEFINE s == At("sent", agents[a].job, agents[a].outcome, agents[a].attempt + 1)
<1>1. agents[a].attempt + 1 \in Nat
  BY DEF IInv, TypeOK, AgentState
<1>2. /\ s \in AgentState /\ s.step = "sent" /\ s.job \in Jobs
      /\ s.outcome = "ok" => paper[s.job] > 0
  BY <1>1, ReportMoves DEF SendReport
<1>3. agents' = [agents EXCEPT ![a] = s]
  BY DEF SendReport
<1>4. /\ UNCHANGED <<jobs, paper>> /\ failed' \in [Jobs -> Nat]
      /\ faults' \in 0..MaxFaults /\ unheard' \subseteq Jobs
  BY DEF SendReport, IInv, TypeOK
<1>. HIDE DEF s
<1>. QED
  BY <1>2, <1>3, <1>4, QuietStep

LEMMA ReadReportStep == ASSUME IInv, NEW a \in Agents, ReadReport(a) PROVE IInv'
<1>. DEFINE row == jobs[agents[a].job]
            seen == [status |-> row.status, retry |-> row.retry]
            s == [agents[a] EXCEPT !.seen = seen]
<1>1. agents[a] \in AgentState /\ agents[a].step = "sent" /\ agents[a].job \in Jobs
  BY DEF ReadReport, IInv, TypeOK, JobInHand
<1>2. seen \in Seen
  BY <1>1 DEF IInv, TypeOK, PrintJob, Seen
<1>3. agents' = [agents EXCEPT ![a] = s]
  BY DEF ReadReport
<1>. HIDE DEF seen
<1>4. /\ s \in AgentState /\ s.step = "sent" /\ s.job = agents[a].job
      /\ s.outcome = agents[a].outcome
  BY <1>1, <1>2 DEF AgentState
<1>5. s.outcome = "ok" => paper[s.job] > 0
  BY <1>4 DEF IInv, OkMeansPaper
<1>6. /\ UNCHANGED <<jobs, paper>> /\ failed' \in [Jobs -> Nat]
      /\ faults' \in 0..MaxFaults /\ unheard' \subseteq Jobs
  BY DEF ReadReport, IInv, TypeOK
<1>. HIDE DEF s
<1>. QED
  BY <1>1, <1>3, <1>4, <1>5, <1>6, QuietStep

LEMMA WriteReportStep == ASSUME IInv, NEW a \in Agents, WriteReport(a) PROVE IInv'
<1>. DEFINE j == agents[a].job
            s == [agents[a] EXCEPT !.step = "answered"]
            row == Reported(jobs[j], agents[a])
<1>1. /\ agents[a] \in AgentState /\ agents[a].step = "sent" /\ j \in Jobs
      /\ jobs \in [Jobs -> PrintJob] /\ paper \in [Jobs -> 0..2]
  BY DEF WriteReport, IInv, TypeOK, JobInHand
<1>2. agents' = [agents EXCEPT ![a] = s]
  BY DEF WriteReport
<1>3. /\ s \in AgentState /\ s.step = "answered" /\ s.job = j
      /\ s.outcome = agents[a].outcome
  BY <1>1 DEF AgentState
<1>4. agents[a].outcome = "ok" => paper[j] > 0
  BY DEF IInv, OkMeansPaper
<1>5. /\ row \in PrintJob /\ row.status # "pending"
      /\ row.status = "completed" => paper[j] > 0
  BY <1>1, <1>4, ReportedRow
<1>6. jobs' = jobs \/ jobs' = [jobs EXCEPT ![j] = row]
  BY DEF WriteReport
<1>7. /\ UNCHANGED paper /\ failed' \in [Jobs -> Nat]
      /\ faults' \in 0..MaxFaults /\ unheard' \subseteq Jobs
  BY DEF WriteReport, IInv, TypeOK
<1>. HIDE DEF s, row, j
<1>8. /\ jobs' \in [Jobs -> PrintJob]
      /\ \A k \in Jobs : jobs'[k] = jobs[k] \/ (k = j /\ jobs'[k] = row)
  BY <1>1, <1>5, <1>6
<1>9. /\ \A k \in Jobs : FreshIn(jobs', k) \/ jobs'[k] = jobs[k]
      /\ \A k \in Jobs : jobs'[k].status = "completed" => paper'[k] > 0
  BY <1>5, <1>7, <1>8 DEF FreshIn, IInv, CompletedMeansPaper
<1>10. paper' \in [Jobs -> 0..2] /\ \A k \in Jobs : paper'[k] >= paper[k]
  BY <1>1, <1>7
<1>. QED
  BY <1>1, <1>2, <1>3, <1>4, <1>7, <1>8, <1>9, <1>10, AgentStep

\* The steps that leave the rows alone and either repeat the report or end it.
LEMMA UnheardSteps ==
    ASSUME IInv, NEW a \in Agents,
           WriteFindsNoRow(a) \/ Answered(a) \/ ReportUnheard(a) \/ Crash(a)
    PROVE  IInv'
<1>. DEFINE again == At("report", agents[a].job, agents[a].outcome, agents[a].attempt)
<1>1. agents[a] \in AgentState /\ agents[a].attempt \in Nat
  BY DEF IInv, TypeOK, AgentState
<1>2. \/ agents' = [agents EXCEPT ![a] = Idle]
      \/ /\ agents' = [agents EXCEPT ![a] = again]
         /\ agents[a].step \in {"sent", "answered"}
  BY DEF WriteFindsNoRow, Answered, ReportUnheard, Crash, NextAttempt, Unanswered
<1>3. agents[a].step \in {"sent", "answered"} =>
        /\ again \in AgentState /\ again.step = "report" /\ again.job \in Jobs
        /\ again.outcome = "ok" => paper[again.job] > 0
  BY <1>1, ReportMoves
<1>4. agents[a].outcome = "ok" => agents[a].job \in Jobs
  BY DEF IInv, OkMeansPaper
<1>5. UNCHANGED <<jobs, paper>> /\ failed' \in [Jobs -> Nat]
  BY DEF WriteFindsNoRow, Answered, ReportUnheard, Crash, IInv, TypeOK
<1>6. faults' \in 0..MaxFaults
  <2>1. faults' = faults \/ (faults < MaxFaults /\ faults' = faults + 1)
    BY DEF WriteFindsNoRow, Answered, ReportUnheard, Crash
  <2>. QED
    BY <2>1, Constants DEF IInv, TypeOK
<1>7. unheard' \subseteq Jobs
  <2>1. unheard' = unheard \/ (agents[a].outcome = "ok" /\ unheard' = unheard \cup {agents[a].job})
    BY DEF WriteFindsNoRow, Answered, ReportUnheard, Crash
  <2>. QED
    BY <2>1, <1>4 DEF IInv, TypeOK
<1>. HIDE DEF again
<1>. QED
  BY <1>2, <1>3, <1>5, <1>6, <1>7, IdleFields, QuietStep

LEMMA EditorStep ==
    ASSUME IInv, NEW j \in Jobs, Queue(j) \/ Delete(j)
    PROVE  IInv'
<1>. DEFINE row == IF Queue(j) THEN Row("pending", 0, 0) ELSE Row("deleted", 0, 0)
<1>1. /\ row \in PrintJob /\ row.status \in {"pending", "deleted"}
      /\ row.created = 0
  BY RowFields, Constants DEF JobStatus, Age
<1>2. jobs' = [jobs EXCEPT ![j] = row] /\ UNCHANGED <<agents, faults, paper, failed, unheard>>
  BY DEF Queue, Delete
<1>. HIDE DEF row
<1>3. jobs \in [Jobs -> PrintJob]
  BY DEF IInv, TypeOK
<1>4. /\ jobs' \in [Jobs -> PrintJob]
      /\ jobs'[j] = row /\ \A k \in Jobs \ {j} : jobs'[k] = jobs[k]
  BY <1>1, <1>2, <1>3
<1>5. TypeOK' /\ JobInHand' /\ OkMeansPaper'
  BY <1>2, <1>4 DEF IInv, TypeOK, JobInHand, OkMeansPaper
<1>6. CompletedMeansPaper'
  BY <1>1, <1>2, <1>4 DEF IInv, CompletedMeansPaper
<1>7. \A k \in Jobs : FreshIn(jobs, k) => FreshIn(jobs', k)
  <2>1. FreshIn(jobs', j)
    BY <1>1, <1>4, Constants DEF FreshIn
  <2>. QED
    BY <2>1, <1>4 DEF FreshIn
<1>8. ListIsFresh'
  <2>1. ASSUME NEW a \in Agents, agents[a].step = "claiming", NEW k \in agents[a].list
        PROVE  FreshIn(jobs', k)
    <3>1. k \in Jobs
      BY <2>1 DEF IInv, TypeOK, AgentState
    <3>. QED
      BY <2>1, <3>1, <1>7 DEF IInv, ListIsFresh, FreshIn
  <2>. QED
    BY <2>1, <1>2 DEF ListIsFresh, FreshIn
<1>. QED
  BY <1>5, <1>6, <1>8 DEF IInv

\* Nothing spoils on a list: the clock stands while an agent is at its list.
LEMMA TickStep == ASSUME IInv, Tick PROVE IInv'
<1>1. /\ jobs \in [Jobs -> PrintJob] /\ agents \in [Agents -> AgentState]
  BY DEF IInv, TypeOK
<1>2. /\ jobs' = [j \in Jobs |-> Aged(jobs[j])]
      /\ UNCHANGED <<faults, paper, failed, unheard>>
  BY DEF Tick
<1>3. /\ jobs' \in [Jobs -> PrintJob]
      /\ \A j \in Jobs : jobs'[j].status = jobs[j].status
  BY <1>1, <1>2, AgedRow
<1>4. ASSUME NEW a \in Agents
      PROVE  /\ agents'[a] \in AgentState
             /\ agents'[a].step = agents[a].step
             /\ agents'[a].job = agents[a].job
             /\ agents'[a].outcome = agents[a].outcome
  <2>1. agents'[a] = IF agents[a].step = "idle" THEN agents[a]
                     ELSE [agents[a] EXCEPT !.since = @ + 1]
    BY DEF Tick
  <2>. QED
    BY <1>1, <2>1 DEF AgentState
<1>5. agents' \in [Agents -> AgentState]
  BY <1>4 DEF Tick
<1>6. ASSUME NEW a \in Agents PROVE agents[a].step # "claiming"
  <2>1. CASE agents[a].step = "claiming"
    <3>1. agents[a].since \in Nat /\ Patience(agents[a]) = 0
      BY <1>1, <2>1 DEF AgentState, Patience
    <3>2. agents[a].since < Patience(agents[a])
      BY <2>1 DEF Tick
    <3>. QED
      BY <3>1, <3>2
  <2>. QED
    BY <2>1
<1>7. TypeOK'
  BY <1>2, <1>3, <1>5 DEF IInv, TypeOK
<1>8. JobInHand' /\ OkMeansPaper'
  BY <1>2, <1>4 DEF IInv, JobInHand, OkMeansPaper
<1>9. CompletedMeansPaper'
  BY <1>2, <1>3 DEF IInv, CompletedMeansPaper
<1>10. ListIsFresh'
  BY <1>4, <1>6 DEF ListIsFresh
<1>. QED
  BY <1>7, <1>8, <1>9, <1>10 DEF IInv

LEMMA StutterStep == ASSUME IInv, UNCHANGED vars PROVE IInv'
BY DEF vars, IInv, TypeOK, JobInHand, OkMeansPaper, CompletedMeansPaper, ListIsFresh

LEMMA NextIInv == IInv /\ [Next]_vars => IInv'
<1>. SUFFICES ASSUME IInv, [Next]_vars PROVE IInv'
  OBVIOUS
<1>1. ASSUME NEW j \in Jobs, Queue(j) \/ Delete(j) PROVE IInv'
  BY <1>1, EditorStep
<1>2. ASSUME NEW a \in Agents, Work(a) PROVE IInv'
  <2>1. CASE Poll(a)
    BY <2>1, PollStep
  <2>2. ASSUME NEW j \in Jobs, Claim(a, j) \/ ClaimRefused(a, j) PROVE IInv'
    BY <2>2, ClaimStep, ClaimRefusedStep
  <2>3. CASE Printing(a)
    BY <2>3, PrintStep
  <2>4. CASE Report(a)
    BY <2>4, SendReportStep, ReadReportStep, WriteReportStep, UnheardSteps DEF Report
  <2>. QED
    BY <1>2, <2>1, <2>2, <2>3, <2>4 DEF Work
<1>3. ASSUME NEW a \in Agents, Fault(a) PROVE IInv'
  BY <1>3, ClaimStep, BreakOffStep, UnheardSteps DEF Fault
<1>4. CASE Tick
  BY <1>4, TickStep
<1>5. CASE UNCHANGED vars
  BY <1>5, StutterStep
<1>. QED
  BY <1>1, <1>2, <1>3, <1>4, <1>5 DEF Next

\* The five parts of IInv hold in every state of the queue, together.
THEOREM PrintInvariant == Spec => []IInv
<1>. QED
  BY InitIInv, NextIInv, PTL DEF Spec

\* The rows, the agents and the histories stay within their types: no count
\* goes below zero and no age past the horizon.
THEOREM PrintTypeCorrect == Spec => []TypeOK
<1>1. IInv => TypeOK
  BY DEF IInv
<1>. QED
  BY <1>1, PrintInvariant, PTL

\* complete_print_job never marks "completed" a job no printer put out, with
\* any number of agents, lost answers, repeats and restarts.
THEOREM PaperForEveryCompletion == Spec => []CompletedMeansPaper
<1>1. IInv => CompletedMeansPaper
  BY DEF IInv
<1>. QED
  BY <1>1, PrintInvariant, PTL

-----------------------------------------------------------------------------
(* No job is handed over past its time to live. *)

\* The reaper and the expiry hand nothing over.
LEMMA ReapedNotPrinting ==
    ASSUME jobs \in [Jobs -> PrintJob], NEW j \in Jobs, jobs[j].status = "pending"
    PROVE  Reaped[j].status # "printing"
<1>1. Requeued(jobs[j]) = jobs[j]
  BY DEF Requeued, Stale, Retryable
<1>2. Reaped[j] = Expired(jobs[j], Ttl[j])
  BY <1>1 DEF Reaped
<1>3. jobs[j] \in PrintJob
  OBVIOUS
<1>. QED
  BY <1>2, <1>3 DEF Expired, PrintJob

LEMMA NextHandsOverFresh == IInv /\ [Next]_vars => HandedOverFresh
<1>. SUFFICES ASSUME IInv, [Next]_vars,
                     NEW j \in Jobs, jobs[j].status = "pending", jobs'[j].status = "printing"
              PROVE  FreshIn(jobs, j)
  BY DEF HandedOverFresh, FreshIn
<1>1. /\ jobs \in [Jobs -> PrintJob] /\ agents \in [Agents -> AgentState]
  BY DEF IInv, TypeOK
<1>2. ASSUME NEW k \in Jobs, Queue(k) \/ Delete(k) PROVE FALSE
  <2>1. jobs' = [jobs EXCEPT ![k] = Row("pending", 0, 0)] \/ jobs' = [jobs EXCEPT ![k] = Row("deleted", 0, 0)]
    BY <1>2 DEF Queue, Delete
  <2>. QED
    BY <1>1, <2>1 DEF Row
<1>3. ASSUME NEW a \in Agents, Poll(a) PROVE FALSE
  BY <1>1, <1>3, ReapedNotPrinting DEF Poll
<1>4. ASSUME NEW a \in Agents, NEW k \in Jobs, Claim(a, k) \/ ClaimUnheard(a, k)
      PROVE  FreshIn(jobs, j)
  <2>1. AtHand(a, k) /\ jobs' = [jobs EXCEPT ![k] = Row("printing", jobs[k].retry, jobs[k].created)]
    BY <1>4 DEF Claim, ClaimUnheard, Claimed
  <2>2. k = j
    BY <1>1, <2>1
  <2>. QED
    BY <2>1, <2>2 DEF AtHand, IInv, ListIsFresh, FreshIn
<1>5. ASSUME NEW a \in Agents, WriteReport(a) PROVE FALSE
  <2>. DEFINE k == agents[a].job
              row == Reported(jobs[k], agents[a])
  <2>1. jobs' = jobs \/ jobs' = [jobs EXCEPT ![k] = row]
    BY <1>5 DEF WriteReport
  <2>2. row.status # "printing"
    BY DEF Reported, Row
  <2>. HIDE DEF row, k
  <2>. QED
    BY <1>1, <2>1, <2>2
<1>6. ASSUME UNCHANGED jobs PROVE FALSE
  BY <1>6
<1>7. CASE Tick
  <2>1. jobs'[j].status = jobs[j].status
    BY <1>1, <1>7, AgedRow DEF Tick
  <2>. QED
    BY <2>1
<1>8. ASSUME NEW a \in Agents, Work(a) \/ Fault(a) PROVE FreshIn(jobs, j)
  <2>1. ASSUME NEW k \in Jobs, ClaimRefused(a, k) PROVE FALSE
    BY <2>1, <1>6 DEF ClaimRefused
  <2>2. ASSUME Printing(a) PROVE FALSE
    BY <2>2, <1>6 DEF Printing, PrintOk, PrintFails
  <2>3. ASSUME SendReport(a) \/ ReadReport(a) \/ WriteFindsNoRow(a) \/ Answered(a)
        PROVE  FALSE
    BY <2>3, <1>6 DEF SendReport, ReadReport, WriteFindsNoRow, Answered
  <2>4. ASSUME PrintBreaksOff(a) \/ ReportUnheard(a) \/ Crash(a) PROVE FALSE
    BY <2>4, <1>6 DEF PrintBreaksOff, ReportUnheard, Crash
  <2>. QED
    BY <1>3, <1>4, <1>5, <1>8, <2>1, <2>2, <2>3, <2>4 DEF Work, Fault, Report
<1>9. CASE UNCHANGED vars
  BY <1>6, <1>9 DEF vars
<1>. QED
  BY <1>2, <1>7, <1>8, <1>9 DEF Next

\* No agent is given a job whose content is past its time to live: the expiry
\* that runs before the list covers the claims made from it.
THEOREM NothingStaleHandedOver == Spec => NoStaleHandover
<1>. QED
  BY PrintInvariant, NextHandsOverFresh, PTL DEF Spec, NoStaleHandover

-----------------------------------------------------------------------------
(* One printer per job. *)

\* What the row of a job looks like to the agent that has been at it for n:
\* claimed or failed no longer ago than that, so neither stale nor retried.
Held(row, n) ==
    /\ row.status \in {"printing", "failed", "completed", "deleted"}
    /\ row.status = "printing" => row.claimed <= n
    /\ row.status = "failed" => row.completed <= n

AtItsJob ==
    \A a \in Agents :
        agents[a].step = "printing" /\ ~Overdue(agents[a]) =>
            Held(jobs[agents[a].job], agents[a].since)

PInv == IInv /\ AtItsJob /\ OnePrinterPerJob

\* How long an agent may be at a job before the reaper or the retry takes it.
Timely == {n \in Nat : n <= StaleTimeout /\ n <= RetryDelay}

LEMMA TimelyOrOverdue ==
    ASSUME NEW s \in AgentState
    PROVE  s.since \in Timely <=> ~Overdue(s)
BY Constants DEF AgentState, Timely, Overdue

KeepsHeld ==
    \A j \in Jobs : \A n \in Timely : Held(jobs[j], n) => Held(jobs'[j], n)

\* The reaper and the expiry leave alone what an agent is at in time.
LEMMA ReapedHeld ==
    ASSUME NEW job \in PrintJob, NEW ttl, NEW n \in Timely, Held(job, n)
    PROVE  Expired(Requeued(job), ttl) = job
<1>1. ~Stale(job)
  BY Constants DEF Stale, Held, PrintJob, Age, Timely
<1>2. ~Retryable(job)
  BY Constants DEF Retryable, Held, PrintJob, Age, Timely
<1>3. Requeued(job) = job
  BY <1>1, <1>2 DEF Requeued
<1>. QED
  BY <1>3 DEF Expired, Held

LEMMA ReportedHeld ==
    ASSUME NEW row, NEW s, NEW n \in Nat
    PROVE  Held(Reported(row, s), n)
BY DEF Held, Reported, Row

LEMMA AgedHeld ==
    ASSUME NEW job \in PrintJob, NEW n \in Nat, Held(job, n)
    PROVE  Held(Aged(job), n + 1)
<1>1. \A age \in Age : Older(age) \in Nat /\ age \in Nat /\ Older(age) <= age + 1
  BY Constants DEF Older, Age
<1>2. Aged(job).status = job.status
  BY DEF Aged
<1>3. job.claimed \in Age /\ job.completed \in Age
  BY DEF PrintJob
<1>4. CASE job.status = "printing"
  <2>1. Aged(job).claimed = Older(job.claimed) /\ job.claimed <= n
    BY <1>4 DEF Aged, Held
  <2>. QED
    BY <1>1, <1>2, <1>3, <1>4, <2>1 DEF Held
<1>5. CASE job.status = "failed"
  <2>1. Aged(job).completed = Older(job.completed) /\ job.completed <= n
    BY <1>5 DEF Aged, Held
  <2>. QED
    BY <1>1, <1>2, <1>3, <1>5, <2>1 DEF Held
<1>. QED
  BY <1>2, <1>4, <1>5 DEF Held

\* A step of one agent that does not begin to print.
LEMMA OtherWork ==
    ASSUME PInv, NEW a \in Agents, NEW s, agents' = [agents EXCEPT ![a] = s],
           s.step # "printing", KeepsHeld
    PROVE  AtItsJob' /\ OnePrinterPerJob'
<1>1. agents \in [Agents -> AgentState]
  BY DEF PInv, IInv, TypeOK
<1>2. ASSUME NEW b \in Agents, agents'[b].step = "printing"
      PROVE  /\ agents'[b] = agents[b] /\ agents[b].step = "printing"
             /\ agents[b].job \in Jobs
  BY <1>1, <1>2 DEF PInv, IInv, JobInHand
<1>3. ASSUME NEW b \in Agents, agents'[b].step = "printing", ~Overdue(agents'[b])
      PROVE  Held(jobs'[agents'[b].job], agents'[b].since)
  <2>1. agents'[b] = agents[b] /\ agents[b].job \in Jobs /\ Held(jobs[agents[b].job], agents[b].since)
    BY <1>2, <1>3 DEF PInv, AtItsJob
  <2>2. agents[b].since \in Timely
    BY <1>1, <1>3, <2>1, TimelyOrOverdue
  <2>. QED
    BY <2>1, <2>2 DEF KeepsHeld
<1>4. AtItsJob'
  BY <1>3 DEF AtItsJob, Overdue
<1>5. OnePrinterPerJob'
  BY <1>2 DEF OnePrinterPerJob, PInv, Overdue
<1>. QED
  BY <1>4, <1>5

\* A claim takes a pending job, and nobody prints one.
LEMMA ClaimAlone ==
    ASSUME PInv, NEW a \in Agents, NEW j \in Jobs, jobs[j].status = "pending",
           jobs' = Claimed(j), agents' = [agents EXCEPT ![a] = At("printing", j, "none", 0)]
    PROVE  AtItsJob' /\ OnePrinterPerJob'
<1>. DEFINE working == At("printing", j, "none", 0)
            row == Row("printing", jobs[j].retry, jobs[j].created)
<1>1. jobs \in [Jobs -> PrintJob] /\ agents \in [Agents -> AgentState]
  BY DEF PInv, IInv, TypeOK
<1>2. working.step = "printing" /\ working.job = j /\ working.since = 0
  BY DEF At
<1>3. Held(row, 0)
  BY DEF Held, Row
<1>4. agents' = [agents EXCEPT ![a] = working] /\ jobs' = [jobs EXCEPT ![j] = row]
  BY DEF Claimed
<1>. HIDE DEF working, row
<1>5. /\ agents'[a] = working /\ jobs'[j] = row
      /\ \A b \in Agents \ {a} : agents'[b] = agents[b]
      /\ \A k \in Jobs \ {j} : jobs'[k] = jobs[k]
  BY <1>1, <1>4
<1>6. ASSUME NEW b \in Agents, b # a, agents'[b].step = "printing"
      PROVE  agents'[b] = agents[b] /\ agents[b].step = "printing"
  BY <1>5, <1>6
<1>7. ASSUME NEW b \in Agents, b # a, agents'[b].step = "printing", ~Overdue(agents'[b])
      PROVE  /\ agents[b].job \in Jobs \ {j}
             /\ Held(jobs'[agents[b].job], agents[b].since)
  <2>1. agents[b].job \in Jobs /\ Held(jobs[agents[b].job], agents[b].since)
    BY <1>6, <1>7 DEF PInv, IInv, JobInHand, AtItsJob
  <2>2. agents[b].job # j
    BY <2>1 DEF Held
  <2>. QED
    BY <1>5, <2>1, <2>2
<1>8. AtItsJob'
  BY <1>2, <1>3, <1>5, <1>6, <1>7 DEF AtItsJob, Overdue
<1>9. OnePrinterPerJob'
  <2>1. ASSUME NEW b \in Agents, b # a, agents'[b].step = "printing", agents'[b].job = j
        PROVE  Overdue(agents'[b])
    BY <1>6, <1>7, <2>1
  <2>2. ASSUME NEW b \in Agents, NEW d \in Agents, b # d,
               agents'[b].step = "printing", agents'[d].step = "printing",
               agents'[b].job = agents'[d].job
        PROVE  Overdue(agents'[b]) \/ Overdue(agents'[d])
    <3>1. CASE b = a \/ d = a
      BY <1>2, <1>5, <2>1, <2>2, <3>1
    <3>2. CASE b # a /\ d # a
      BY <1>6, <2>2, <3>2 DEF OnePrinterPerJob, PInv
    <3>. QED
      BY <3>1, <3>2
  <2>. QED
    BY <2>2 DEF OnePrinterPerJob, Overdue
<1>. QED
  BY <1>8, <1>9

LEMMA UnchangedKeeps == ASSUME UNCHANGED jobs PROVE KeepsHeld
BY DEF KeepsHeld

LEMMA PollAlone == ASSUME PInv, NEW a \in Agents, Poll(a) PROVE AtItsJob' /\ OnePrinterPerJob'
<1>1. jobs \in [Jobs -> PrintJob] /\ jobs' = Reaped
  BY DEF PInv, IInv, TypeOK, Poll
<1>2. KeepsHeld
  BY <1>1, ReapedHeld DEF KeepsHeld, Reaped
<1>. DEFINE next == IF Pending(Reaped) = {} THEN Idle
                    ELSE [At("claiming", -1, "none", 0) EXCEPT !.list = Pending(Reaped)]
<1>3. next.step # "printing"
  BY DEF Idle, At
<1>4. agents' = [agents EXCEPT ![a] = next]
  BY DEF Poll
<1>. HIDE DEF next
<1>. QED
  BY <1>2, <1>3, <1>4, OtherWork

LEMMA ClaimUnheardAlone ==
    ASSUME PInv, NEW a \in Agents, NEW j \in Jobs, ClaimUnheard(a, j)
    PROVE  AtItsJob' /\ OnePrinterPerJob'
<1>1. jobs \in [Jobs -> PrintJob] /\ jobs[j].status = "pending"
  BY DEF PInv, IInv, TypeOK, ClaimUnheard
<1>2. \A k \in Jobs \ {j} : jobs'[k] = jobs[k]
  BY <1>1 DEF ClaimUnheard, Claimed
<1>3. KeepsHeld
  BY <1>1, <1>2 DEF KeepsHeld, Held
<1>. QED
  BY <1>3, IdleFields, OtherWork DEF ClaimUnheard

LEMMA ClaimRefusedAlone ==
    ASSUME PInv, NEW a \in Agents, NEW j \in Jobs, ClaimRefused(a, j)
    PROVE  AtItsJob' /\ OnePrinterPerJob'
<1>. DEFINE rest == agents[a].list \ {j}
            less == [agents[a] EXCEPT !.list = rest]
            next == IF rest = {} THEN Idle ELSE less
<1>1. agents[a] \in AgentState /\ agents[a].step = "claiming"
  BY DEF PInv, IInv, TypeOK, ClaimRefused, AtHand
<1>2. less.step = "claiming"
  BY <1>1 DEF AgentState
<1>3. next.step # "printing"
  BY <1>2, IdleFields
<1>4. agents' = [agents EXCEPT ![a] = next] /\ KeepsHeld
  BY UnchangedKeeps DEF ClaimRefused
<1>. HIDE DEF next
<1>. QED
  BY <1>3, <1>4, OtherWork

LEMMA BreakOffAlone ==
    ASSUME PInv, NEW a \in Agents, PrintBreaksOff(a)
    PROVE  AtItsJob' /\ OnePrinterPerJob'
BY DEF PrintBreaksOff, PInv, AtItsJob, OnePrinterPerJob, Overdue

LEMMA ReportAlone ==
    ASSUME PInv, NEW a \in Agents, Printing(a) \/ Report(a) \/ ReportUnheard(a) \/ Crash(a)
    PROVE  AtItsJob' /\ OnePrinterPerJob'
<1>. DEFINE j == agents[a].job
<1>1. jobs \in [Jobs -> PrintJob] /\ agents[a] \in AgentState
  BY DEF PInv, IInv, TypeOK
<1>2. \A t \in {"report", "sent"}, o \in Outcome, n \in Nat : At(t, j, o, n).step # "printing"
  BY DEF At
<1>3. /\ NextAttempt(agents[a]).step # "printing" /\ Idle.step # "printing"
  BY DEF NextAttempt, At, Idle
<1>4. CASE Printing(a)
  <2>1. PICK o : agents' = [agents EXCEPT ![a] = At("report", j, o, 0)] /\ UNCHANGED jobs
    BY <1>4 DEF Printing, PrintOk, PrintFails
  <2>2. At("report", j, o, 0).step # "printing"
    BY DEF At
  <2>. QED
    BY <2>1, <2>2, UnchangedKeeps, OtherWork
<1>5. CASE SendReport(a)
  <2>. DEFINE s == At("sent", j, agents[a].outcome, agents[a].attempt + 1)
  <2>1. s.step # "printing"
    BY DEF At
  <2>2. agents' = [agents EXCEPT ![a] = s] /\ UNCHANGED jobs
    BY <1>5 DEF SendReport
  <2>. HIDE DEF s
  <2>. QED
    BY <2>1, <2>2, UnchangedKeeps, OtherWork
<1>6. CASE ReadReport(a)
  <2>. DEFINE seen == [status |-> jobs[j].status, retry |-> jobs[j].retry]
              s == [agents[a] EXCEPT !.seen = seen]
  <2>1. s.step # "printing"
    BY <1>1, <1>6 DEF ReadReport, AgentState
  <2>2. agents' = [agents EXCEPT ![a] = s] /\ UNCHANGED jobs
    BY <1>6 DEF ReadReport
  <2>. HIDE DEF s
  <2>. QED
    BY <2>1, <2>2, UnchangedKeeps, OtherWork
<1>7. CASE WriteReport(a)
  <2>. DEFINE row == Reported(jobs[j], agents[a])
              s == [agents[a] EXCEPT !.step = "answered"]
  <2>1. s.step # "printing" /\ agents' = [agents EXCEPT ![a] = s]
    BY <1>1, <1>7 DEF WriteReport, AgentState
  <2>2. jobs' = jobs \/ jobs' = [jobs EXCEPT ![j] = row]
    BY <1>7 DEF WriteReport
  <2>3. \A n \in Timely : Held(row, n)
    BY ReportedHeld DEF Timely
  <2>. HIDE DEF row, s, j
  <2>4. \A k \in Jobs : jobs'[k] = jobs[k] \/ jobs'[k] = row
    BY <1>1, <2>2
  <2>5. KeepsHeld
    BY <2>3, <2>4 DEF KeepsHeld
  <2>. QED
    BY <2>1, <2>5, OtherWork
<1>8. CASE WriteFindsNoRow(a) \/ Answered(a) \/ ReportUnheard(a) \/ Crash(a)
  <2>1. /\ UNCHANGED jobs
        /\ \/ agents' = [agents EXCEPT ![a] = NextAttempt(agents[a])]
           \/ agents' = [agents EXCEPT ![a] = Idle]
    BY <1>8 DEF WriteFindsNoRow, Answered, ReportUnheard, Crash
  <2>. QED
    BY <1>3, <2>1, UnchangedKeeps, OtherWork
<1>. QED
  BY <1>4, <1>5, <1>6, <1>7, <1>8 DEF Report

LEMMA EditorAlone ==
    ASSUME PInv, NEW j \in Jobs, Queue(j) \/ Delete(j)
    PROVE  AtItsJob' /\ OnePrinterPerJob'
<1>1. jobs \in [Jobs -> PrintJob] /\ agents' = agents
  BY DEF PInv, IInv, TypeOK, Queue, Delete
<1>2. /\ \A k \in Jobs \ {j} : jobs'[k] = jobs[k]
      /\ jobs[j].status = "absent" \/ jobs'[j].status = "deleted"
  BY <1>1 DEF Queue, Delete, Row
<1>3. ASSUME NEW a \in Agents, agents[a].step = "printing", ~Overdue(agents[a])
      PROVE  Held(jobs'[agents[a].job], agents[a].since)
  <2>1. agents[a].job \in Jobs /\ Held(jobs[agents[a].job], agents[a].since)
    BY <1>3 DEF PInv, IInv, JobInHand, AtItsJob
  <2>. QED
    BY <2>1, <1>2 DEF Held
<1>4. AtItsJob'
  BY <1>1, <1>3 DEF AtItsJob, Overdue
<1>. QED
  BY <1>1, <1>4 DEF PInv, OnePrinterPerJob, Overdue

LEMMA TickAlone == ASSUME PInv, Tick PROVE AtItsJob' /\ OnePrinterPerJob'
<1>1. jobs \in [Jobs -> PrintJob] /\ agents \in [Agents -> AgentState]
  BY DEF PInv, IInv, TypeOK
<1>2. ASSUME NEW a \in Agents
      PROVE  agents'[a].step = agents[a].step /\ agents'[a].job = agents[a].job
  BY <1>1, <1>2 DEF Tick, AgentState
<1>3. ASSUME NEW a \in Agents, agents[a].step = "printing"
      PROVE  /\ agents[a].since \in Nat /\ agents[a].job \in Jobs
             /\ agents'[a].since = agents[a].since + 1
             /\ Overdue(agents[a]) => Overdue(agents'[a])
  <2>1. agents[a].since \in Nat /\ agents[a].job \in Jobs
    BY <1>1, <1>3 DEF AgentState, PInv, IInv, JobInHand
  <2>2. agents'[a].since = agents[a].since + 1
    BY <1>1, <1>3 DEF Tick, AgentState
  <2>. QED
    BY <2>1, <2>2, Constants DEF Overdue
<1>4. ASSUME NEW a \in Agents, agents'[a].step = "printing", ~Overdue(agents'[a])
      PROVE  Held(jobs'[agents'[a].job], agents'[a].since)
  <2>1. agents[a].step = "printing"
    BY <1>2, <1>4
  <2>2. /\ agents[a].since \in Nat /\ agents[a].job \in Jobs
        /\ agents'[a].since = agents[a].since + 1 /\ agents'[a].job = agents[a].job
        /\ Held(jobs[agents[a].job], agents[a].since)
    BY <1>2, <1>3, <1>4, <2>1 DEF PInv, AtItsJob
  <2>3. jobs'[agents[a].job] = Aged(jobs[agents[a].job])
    BY <2>2 DEF Tick
  <2>. QED
    BY <1>1, <2>2, <2>3, AgedHeld
<1>5. AtItsJob'
  BY <1>4 DEF AtItsJob, Overdue
<1>6. OnePrinterPerJob'
  BY <1>2, <1>3 DEF PInv, OnePrinterPerJob, Overdue
<1>. QED
  BY <1>5, <1>6

LEMMA NextPInv == PInv /\ [Next]_vars => PInv'
<1>. SUFFICES ASSUME PInv, [Next]_vars PROVE AtItsJob' /\ OnePrinterPerJob'
  BY NextIInv DEF PInv
<1>1. ASSUME NEW j \in Jobs, Queue(j) \/ Delete(j) PROVE AtItsJob' /\ OnePrinterPerJob'
  BY <1>1, EditorAlone
<1>2. ASSUME NEW a \in Agents, NEW j \in Jobs, Claim(a, j)
      PROVE  AtItsJob' /\ OnePrinterPerJob'
  BY <1>2, ClaimAlone DEF Claim
<1>3. ASSUME NEW a \in Agents, Work(a) \/ Fault(a) PROVE AtItsJob' /\ OnePrinterPerJob'
  BY <1>2, <1>3, PollAlone, ClaimRefusedAlone, ClaimUnheardAlone,
     BreakOffAlone, ReportAlone
     DEF Work, Fault
<1>4. CASE Tick
  BY <1>4, TickAlone
<1>5. CASE UNCHANGED vars
  BY <1>5 DEF vars, PInv, AtItsJob, OnePrinterPerJob, Overdue
<1>. QED
  BY <1>1, <1>3, <1>4, <1>5 DEF Next

\* Two agents print the same job at once only if one of them has been at it for
\* longer than STALE_PRINTING_TIMEOUT_SECONDS or FAILED_RETRY_DELAY_SECONDS,
\* however long prints and reports take (claim_print_job, requeue_lost_jobs).
THEOREM OneAgentPrintsAJob == Spec => []OnePrinterPerJob
<1>1. Init => PInv
  BY InitIInv, IdleFields DEF Init, PInv, AtItsJob, OnePrinterPerJob
<1>2. PInv => OnePrinterPerJob
  BY DEF PInv
<1>. QED
  BY <1>1, <1>2, NextPInv, PTL DEF Spec

-----------------------------------------------------------------------------
(* From the claim to the last report. complete_print_job writes over what  *)
(* it read a moment ago, and the agent repeats a report whose answer was   *)
(* lost: all that is sound as long as nobody else takes the job meanwhile. *)

OneAgent == \A a, b \in Agents : a = b

Attempts(n) == n * ReportTimeout

\* REPORT_TIMEOUT_SEC times the attempts: it fits into the pause before a
\* retry and, after the print, into STALE_PRINTING_TIMEOUT_SECONDS.
ReportsInTime ==
    /\ Attempts(ReportAttempts) <= RetryDelay
    /\ PrintTime + Attempts(ReportAttempts) <= StaleTimeout

\* A lone agent does not poll while it is at a job; several have to be quick.
NobodyTakesAJob == OneAgent \/ ReportsInTime

Reporting(s) == s.step \in {"report", "sent", "answered"}
AtWork(s) == s.step = "printing" \/ Reporting(s)

\* How long the report of an agent has taken at most.
Spent(s) ==
    IF s.step = "report" THEN Attempts(s.attempt) ELSE Attempts(s.attempt - 1) + s.since

InTime(s) ==
    /\ s.step = "printing" => s.since <= PrintTime
    /\ s.step = "report" => s.attempt < ReportAttempts
    /\ s.step \in {"sent", "answered"} =>
          s.attempt \in 1..ReportAttempts /\ s.since <= ReportTimeout

Verdict(s) == IF s.outcome = "ok" THEN "completed" ELSE "failed"

\* The row of a job as the agent at work on it may find it: its own claim or
\* its own verdict, no older than the agent is at it, unless an editor has
\* deleted it. What its report has read is what the row still says.
InView(s, row) ==
    /\ s.step = "printing" => /\ row.status \in {"printing", "deleted"}
                              /\ row.status = "printing" => row.claimed <= s.since
    /\ Reporting(s) =>
          /\ s.outcome # "none"
          /\ row.status \in {"printing", "deleted", Verdict(s)}
          /\ row.status = "printing" => row.claimed <= PrintTime + Spent(s)
          /\ row.status = "failed" => row.completed <= Spent(s)
    /\ s.step = "answered" => row.status # "printing"
    /\ s.step = "sent" /\ s.seen # Unread /\ row.status # "deleted" =>
          s.seen = [status |-> row.status, retry |-> row.retry]

RowsInView ==
    \A a \in Agents : AtWork(agents[a]) =>
        InTime(agents[a]) /\ InView(agents[a], jobs[agents[a].job])

OneAtWork ==
    \A a, b \in Agents :
        AtWork(agents[a]) /\ AtWork(agents[b]) /\ agents[a].job = agents[b].job => a = b

VInv == IInv /\ RowsInView /\ OneAtWork

LEMMA AttemptsAdd ==
    /\ \A n \in Nat : Attempts(n) \in Nat /\ Attempts(n + 1) = Attempts(n) + ReportTimeout
    /\ \A n, m \in Nat : n <= m => Attempts(n) <= Attempts(m)
<1>1. ReportTimeout \in Nat
  BY Constants
<1>2. ASSUME NEW n \in Nat
      PROVE  Attempts(n) \in Nat /\ Attempts(n + 1) = Attempts(n) + ReportTimeout
  BY <1>1 DEF Attempts
<1>3. ASSUME NEW n \in Nat, NEW m \in Nat, n <= m
      PROVE  Attempts(n) <= Attempts(m)
  <2>1. (m - n) * ReportTimeout >= 0
    BY <1>1, <1>3
  <2>2. m * ReportTimeout = n * ReportTimeout + (m - n) * ReportTimeout
    BY <1>1
  <2>. QED
    BY <1>1, <2>1, <2>2 DEF Attempts
<1>. QED
  BY <1>2, <1>3

LEMMA SpentInTime ==
    ASSUME NEW s \in AgentState, Reporting(s), InTime(s)
    PROVE  Spent(s) \in Nat /\ Spent(s) <= Attempts(ReportAttempts)
<1>1. s.attempt \in Nat /\ s.since \in Nat /\ ReportAttempts \in Nat /\ ReportTimeout \in Nat
  BY Constants DEF AgentState
<1>2. CASE s.step = "report"
  <2>1. s.attempt <= ReportAttempts
    BY <1>1, <1>2 DEF InTime
  <2>2. Attempts(s.attempt) \in Nat /\ Attempts(s.attempt) <= Attempts(ReportAttempts)
    BY <1>1, <2>1, AttemptsAdd
  <2>3. Spent(s) = Attempts(s.attempt)
    BY <1>2 DEF Spent
  <2>. QED
    BY <2>2, <2>3
<1>3. CASE s.step \in {"sent", "answered"}
  <2>1. s.attempt - 1 \in Nat /\ s.attempt <= ReportAttempts /\ s.since <= ReportTimeout
    BY <1>1, <1>3 DEF InTime
  <2>2. /\ Attempts(s.attempt - 1) \in Nat /\ Attempts(s.attempt) \in Nat
        /\ Attempts((s.attempt - 1) + 1) = Attempts(s.attempt - 1) + ReportTimeout
        /\ Attempts(s.attempt) <= Attempts(ReportAttempts)
        /\ Attempts(ReportAttempts) \in Nat
    BY <1>1, <2>1, AttemptsAdd
  <2>3. (s.attempt - 1) + 1 = s.attempt
    BY <1>1
  <2>4. Spent(s) = Attempts(s.attempt - 1) + s.since
    BY <1>3 DEF Spent
  <2>. DEFINE before == Attempts(s.attempt - 1)
              after == Attempts(s.attempt)
              all == Attempts(ReportAttempts)
  <2>5. /\ before \in Nat /\ after \in Nat /\ all \in Nat
        /\ after = before + ReportTimeout /\ after <= all /\ Spent(s) = before + s.since
    BY <2>2, <2>3, <2>4
  <2>6. Attempts(ReportAttempts) = all
    OBVIOUS
  <2>. HIDE DEF before, after, all
  <2>. QED
    BY <1>1, <2>1, <2>5, <2>6
<1>. QED
  BY <1>2, <1>3 DEF Reporting

\* The reaper and the expiry leave the row of a quick agent alone.
LEMMA ReapedInView ==
    ASSUME ReportsInTime, NEW job \in PrintJob, NEW ttl,
           NEW s \in AgentState, AtWork(s), InTime(s), InView(s, job)
    PROVE  Expired(Requeued(job), ttl) = job
<1>1. job.status \in {"printing", "deleted", "completed", "failed"}
  BY DEF AtWork, InView, Verdict
<1>2. Attempts(ReportAttempts) \in Nat
  BY Constants, AttemptsAdd
<1>3. /\ job.claimed \in Nat /\ job.completed \in Nat /\ s.since \in Nat
      /\ StaleTimeout \in Nat /\ RetryDelay \in Nat /\ PrintTime \in Nat
  BY Constants DEF PrintJob, Age, AgentState
<1>4. CASE s.step = "printing"
  <2>1. ~Stale(job)
    BY <1>2, <1>3, <1>4 DEF ReportsInTime, Stale, InTime, InView
  <2>2. ~Retryable(job)
    BY <1>4 DEF Retryable, InView
  <2>. QED
    BY <1>1, <2>1, <2>2 DEF Requeued, Expired
<1>5. CASE Reporting(s)
  <2>1. Spent(s) \in Nat /\ Spent(s) <= Attempts(ReportAttempts)
    BY <1>5, SpentInTime
  <2>. DEFINE spent == Spent(s)
              all == Attempts(ReportAttempts)
  <2>2. /\ spent \in Nat /\ all \in Nat /\ spent <= all
        /\ all <= RetryDelay /\ PrintTime + all <= StaleTimeout
        /\ job.status = "printing" => job.claimed <= PrintTime + spent
        /\ job.status = "failed" => job.completed <= spent
    BY <1>5, <1>2, <2>1 DEF ReportsInTime, InView
  <2>. HIDE DEF spent, all
  <2>3. ~Stale(job) /\ ~Retryable(job)
    BY <1>3, <2>2 DEF Stale, Retryable
  <2>. QED
    BY <1>1, <2>3 DEF Requeued, Expired
<1>. QED
  BY <1>4, <1>5 DEF AtWork

\* A step of one agent that is at no job afterwards, stays at its job, or
\* takes a pending one, and alters no row another agent is at.
LEMMA WorkerStep ==
    ASSUME VInv, NEW a \in Agents, NEW s, agents' = [agents EXCEPT ![a] = s],
           AtWork(s) => /\ s.job \in Jobs
                        /\ \/ AtWork(agents[a]) /\ s.job = agents[a].job
                           \/ jobs[s.job].status = "pending"
                        /\ InTime(s) /\ InView(s, jobs'[s.job]),
           \A b \in Agents \ {a} :
               AtWork(agents[b]) => jobs'[agents[b].job] = jobs[agents[b].job]
    PROVE  RowsInView' /\ OneAtWork'
<1>1. agents \in [Agents -> AgentState]
  BY DEF VInv, IInv, TypeOK
<1>2. agents'[a] = s /\ \A b \in Agents \ {a} : agents'[b] = agents[b]
  BY <1>1
<1>3. ASSUME NEW b \in Agents \ {a}, AtWork(agents[b])
      PROVE  /\ InTime(agents[b]) /\ InView(agents[b], jobs'[agents[b].job])
             /\ jobs[agents[b].job].status # "pending"
  <2>1. InTime(agents[b]) /\ InView(agents[b], jobs[agents[b].job])
    BY <1>3 DEF VInv, RowsInView
  <2>2. jobs[agents[b].job].status # "pending"
    BY <1>3, <2>1 DEF InView, AtWork, Verdict
  <2>. QED
    BY <1>3, <2>1, <2>2
<1>4. ASSUME NEW b \in Agents, AtWork(agents'[b])
      PROVE  InTime(agents'[b]) /\ InView(agents'[b], jobs'[agents'[b].job])
  BY <1>2, <1>3, <1>4
<1>5. ASSUME NEW b \in Agents \ {a}, AtWork(agents[b]), AtWork(s)
      PROVE  agents[b].job # s.job
  BY <1>3, <1>5 DEF VInv, OneAtWork
<1>6. ASSUME NEW b \in Agents, NEW c \in Agents, AtWork(agents'[b]), AtWork(agents'[c]),
             agents'[b].job = agents'[c].job
      PROVE  b = c
  BY <1>2, <1>5, <1>6 DEF VInv, OneAtWork
<1>7. RowsInView'
  BY <1>4 DEF RowsInView, InTime, InView, AtWork, Reporting, Spent, Verdict
<1>8. OneAtWork'
  BY <1>6 DEF OneAtWork, AtWork, Reporting
<1>. QED
  BY <1>7, <1>8

LEMMA AtWorkFields ==
    ASSUME VInv, NEW a \in Agents, AtWork(agents[a])
    PROVE  /\ agents[a] \in AgentState /\ agents[a].job \in Jobs
           /\ jobs \in [Jobs -> PrintJob] /\ jobs[agents[a].job] \in PrintJob
           /\ InTime(agents[a]) /\ InView(agents[a], jobs[agents[a].job])
<1>1. agents[a].job \in Jobs
  BY DEF VInv, IInv, JobInHand, AtWork, Reporting
<1>. QED
  BY <1>1 DEF VInv, IInv, TypeOK, RowsInView

\* An agent that polls is at no job, and takes none from another.
LEMMA PollInView ==
    ASSUME VInv, NobodyTakesAJob, NEW a \in Agents, Poll(a)
    PROVE  /\ \A b \in Agents : AtWork(agents[b]) => jobs'[agents[b].job] = jobs[agents[b].job]
           /\ RowsInView' /\ OneAtWork'
<1>. DEFINE next == IF Pending(Reaped) = {} THEN Idle
                    ELSE [At("claiming", -1, "none", 0) EXCEPT !.list = Pending(Reaped)]
<1>1. ~AtWork(next) /\ agents' = [agents EXCEPT ![a] = next]
  BY DEF Poll, Idle, At, AtWork, Reporting
<1>2. ~AtWork(agents[a]) /\ jobs' = Reaped
  BY DEF Poll, AtWork, Reporting
<1>3. ASSUME NEW b \in Agents, AtWork(agents[b])
      PROVE  jobs'[agents[b].job] = jobs[agents[b].job]
  <2>1. ReportsInTime
    BY <1>2, <1>3 DEF NobodyTakesAJob, OneAgent
  <2>2. Expired(Requeued(jobs[agents[b].job]), Ttl[agents[b].job]) = jobs[agents[b].job]
    BY <1>3, <2>1, AtWorkFields, ReapedInView
  <2>. QED
    BY <1>2, <1>3, <2>2, AtWorkFields DEF Reaped
<1>. HIDE DEF next
<1>. QED
  BY <1>1, <1>3, WorkerStep

LEMMA ClaimInView ==
    ASSUME VInv, NEW a \in Agents, NEW j \in Jobs, Claim(a, j) \/ ClaimUnheard(a, j)
    PROVE  RowsInView' /\ OneAtWork'
<1>. DEFINE working == At("printing", j, "none", 0)
            row == Row("printing", jobs[j].retry, jobs[j].created)
<1>1. jobs \in [Jobs -> PrintJob] /\ jobs[j].status = "pending"
  BY DEF Claim, ClaimUnheard, VInv, IInv, TypeOK
<1>2. jobs' = [jobs EXCEPT ![j] = row]
  BY DEF Claim, ClaimUnheard, Claimed
<1>3. working.job = j /\ working.step = "printing" /\ working.since = 0
  BY DEF At
<1>4. row.status = "printing" /\ row.claimed = 0
  BY DEF Row
<1>5. agents' = [agents EXCEPT ![a] = working] \/ agents' = [agents EXCEPT ![a] = Idle]
  BY DEF Claim, ClaimUnheard
<1>6. ~AtWork(Idle)
  BY IdleFields DEF AtWork, Reporting
<1>. HIDE DEF working, row
<1>7. jobs'[j] = row /\ \A k \in Jobs \ {j} : jobs'[k] = jobs[k]
  BY <1>1, <1>2
<1>8. InTime(working) /\ InView(working, row)
  BY <1>3, <1>4, Constants DEF InTime, InView, Reporting
<1>9. ASSUME NEW b \in Agents, AtWork(agents[b]) PROVE agents[b].job \in Jobs \ {j}
  <2>1. InView(agents[b], jobs[agents[b].job]) /\ agents[b].job \in Jobs
    BY <1>9, AtWorkFields
  <2>. QED
    BY <1>1, <1>9, <2>1 DEF InView, AtWork, Verdict
<1>. QED
  BY <1>1, <1>3, <1>5, <1>6, <1>7, <1>8, <1>9, WorkerStep

\* A step of one agent that leaves the rows alone.
LEMMA SameRows ==
    ASSUME VInv, NEW a \in Agents, NEW s, agents' = [agents EXCEPT ![a] = s], UNCHANGED jobs,
           AtWork(s) => /\ AtWork(agents[a]) /\ s.job = agents[a].job
                        /\ InTime(s) /\ InView(s, jobs[s.job])
    PROVE  RowsInView' /\ OneAtWork'
<1>1. AtWork(s) => s.job \in Jobs
  BY AtWorkFields
<1>. QED
  BY <1>1, WorkerStep

LEMMA ClaimRefusedInView ==
    ASSUME VInv, NEW a \in Agents, NEW j \in Jobs, ClaimRefused(a, j)
    PROVE  RowsInView' /\ OneAtWork'
<1>. DEFINE rest == agents[a].list \ {j}
            less == [agents[a] EXCEPT !.list = rest]
            next == IF rest = {} THEN Idle ELSE less
<1>1. agents[a] \in AgentState /\ agents[a].step = "claiming"
  BY DEF VInv, IInv, TypeOK, ClaimRefused, AtHand
<1>2. less.step = "claiming"
  BY <1>1 DEF AgentState
<1>3. ~AtWork(next)
  BY <1>2, IdleFields DEF AtWork, Reporting
<1>4. agents' = [agents EXCEPT ![a] = next] /\ UNCHANGED jobs
  BY DEF ClaimRefused
<1>. HIDE DEF next
<1>. QED
  BY <1>3, <1>4, SameRows

\* The next attempt to report starts no later than the last one ends.
LEMMA NextReport ==
    ASSUME VInv, NEW a \in Agents, agents[a].step \in {"sent", "answered"},
           NEW s, s = NextAttempt(agents[a]), AtWork(s)
    PROVE  /\ AtWork(agents[a]) /\ s.job = agents[a].job
           /\ InTime(s) /\ InView(s, jobs[s.job])
<1>. DEFINE old == agents[a]
            row == jobs[old.job]
<1>1. AtWork(old)
  BY DEF AtWork, Reporting
<1>2. old \in AgentState /\ row \in PrintJob /\ InTime(old) /\ InView(old, row)
  BY <1>1, AtWorkFields
<1>3. old.attempt < ReportAttempts /\ s = At("report", old.job, old.outcome, old.attempt)
  BY IdleFields DEF NextAttempt, AtWork, Reporting
<1>4. /\ s.step = "report" /\ s.job = old.job /\ s.outcome = old.outcome
      /\ s.attempt = old.attempt /\ s.since = 0
  BY <1>3 DEF At
<1>5. InTime(s)
  BY <1>3, <1>4 DEF InTime
<1>6. Spent(old) \in Nat /\ Spent(s) \in Nat /\ Spent(old) <= Spent(s)
  <2>1. old.attempt - 1 \in Nat /\ old.attempt \in Nat /\ old.since \in Nat /\ ReportTimeout \in Nat
    BY <1>2, Constants DEF InTime, AgentState
  <2>2. old.since <= ReportTimeout
    BY <1>2 DEF InTime
  <2>. DEFINE before == Attempts(old.attempt - 1)
              after == Attempts(old.attempt)
  <2>3. (old.attempt - 1) + 1 = old.attempt
    BY <2>1
  <2>4. before \in Nat /\ after \in Nat /\ after = before + ReportTimeout
    BY <2>1, <2>3, AttemptsAdd
  <2>5. Spent(old) = before + old.since /\ Spent(s) = after
    BY <1>4 DEF Spent
  <2>. HIDE DEF before, after, old
  <2>. QED
    BY <2>1, <2>2, <2>4, <2>5
<1>7. Verdict(s) = Verdict(old)
  BY <1>4 DEF Verdict
<1>. HIDE DEF old
<1>8. row.claimed \in Nat /\ row.completed \in Nat /\ PrintTime \in Nat
  BY <1>2, Constants DEF PrintJob, Age
<1>9. /\ s.outcome # "none"
      /\ row.status \in {"printing", "deleted", Verdict(s)}
      /\ row.status = "printing" => row.claimed <= PrintTime + Spent(old)
      /\ row.status = "failed" => row.completed <= Spent(old)
  BY <1>2, <1>4, <1>7 DEF InView, Reporting, old
<1>. HIDE DEF row
<1>10. /\ row.status = "printing" => row.claimed <= PrintTime + Spent(s)
       /\ row.status = "failed" => row.completed <= Spent(s)
  BY <1>6, <1>8, <1>9
<1>11. InView(s, row)
  BY <1>4, <1>9, <1>10 DEF InView, Reporting
<1>. QED
  BY <1>1, <1>4, <1>5, <1>11 DEF old, row

LEMMA PrintedInView ==
    ASSUME VInv, NEW a \in Agents, Printing(a)
    PROVE  RowsInView' /\ OneAtWork'
<1>. DEFINE old == agents[a]
            row == jobs[old.job]
<1>1. PICK o \in {"ok", "refused", "unreachable"} :
         agents' = [agents EXCEPT ![a] = At("report", old.job, o, 0)]
  BY DEF Printing, PrintOk, PrintFails
<1>. DEFINE s == At("report", old.job, o, 0)
<1>2. old.step = "printing" /\ UNCHANGED jobs
  BY DEF Printing, PrintOk, PrintFails
<1>3. AtWork(old)
  BY <1>2 DEF AtWork
<1>4. old \in AgentState /\ row \in PrintJob /\ InTime(old) /\ InView(old, row)
  BY <1>3, AtWorkFields
<1>5. /\ s.step = "report" /\ s.job = old.job /\ s.attempt = 0
      /\ s.outcome # "none"
  BY DEF At
<1>6. Spent(s) = 0
  BY <1>5, Constants DEF Spent, Attempts
<1>7. InTime(s)
  BY <1>5, ReportIsTried DEF InTime
<1>8. /\ row.status \in {"printing", "deleted"}
      /\ row.status = "printing" => row.claimed <= PrintTime
  <2>1. old.since <= PrintTime /\ old.since \in Nat /\ row.claimed \in Nat
    BY <1>2, <1>4, Constants DEF InTime, AgentState, PrintJob, Age
  <2>2. /\ row.status \in {"printing", "deleted"}
        /\ row.status = "printing" => row.claimed <= old.since
    BY <1>2, <1>4 DEF InView
  <2>. HIDE DEF row, old
  <2>. QED
    BY <2>1, <2>2, Constants
<1>. HIDE DEF s
<1>9. InView(s, row)
  BY <1>4, <1>5, <1>6, <1>8, Constants DEF InView, Reporting, PrintJob, Age
<1>. QED
  BY <1>1, <1>2, <1>3, <1>5, <1>7, <1>9, SameRows DEF s

LEMMA SentInView ==
    ASSUME VInv, NEW a \in Agents, SendReport(a)
    PROVE  RowsInView' /\ OneAtWork'
<1>. DEFINE old == agents[a]
            row == jobs[old.job]
            s == At("sent", old.job, old.outcome, old.attempt + 1)
<1>1. old.step = "report" /\ UNCHANGED jobs /\ agents' = [agents EXCEPT ![a] = s]
  BY DEF SendReport
<1>2. AtWork(old)
  BY <1>1 DEF AtWork, Reporting
<1>3. old \in AgentState /\ InTime(old) /\ InView(old, row)
  BY <1>2, AtWorkFields
<1>4. /\ s.step = "sent" /\ s.job = old.job /\ s.outcome = old.outcome
      /\ s.attempt = old.attempt + 1 /\ s.since = 0 /\ s.seen = Unread
  BY DEF At
<1>5. old.attempt \in Nat /\ old.attempt < ReportAttempts
  BY <1>1, <1>3 DEF InTime, AgentState
<1>6. InTime(s)
  BY <1>4, <1>5, Constants DEF InTime
<1>7. Spent(s) = Spent(old)
  <2>1. Attempts(old.attempt) \in Nat
    BY <1>5, AttemptsAdd
  <2>. HIDE DEF s, old
  <2>2. (old.attempt + 1) - 1 = old.attempt
    BY <1>5
  <2>. QED
    BY <1>1, <1>4, <2>1, <2>2 DEF Spent
<1>8. Verdict(s) = Verdict(old)
  BY <1>4 DEF Verdict
<1>. HIDE DEF s
<1>9. InView(s, row)
  BY <1>1, <1>3, <1>4, <1>7, <1>8 DEF InView, Reporting
<1>. QED
  BY <1>1, <1>2, <1>4, <1>6, <1>9, SameRows

LEMMA ReadInView ==
    ASSUME VInv, NEW a \in Agents, ReadReport(a)
    PROVE  RowsInView' /\ OneAtWork'
<1>. DEFINE old == agents[a]
            row == jobs[old.job]
            seen == [status |-> row.status, retry |-> row.retry]
            s == [old EXCEPT !.seen = seen]
<1>1. old.step = "sent" /\ UNCHANGED jobs /\ agents' = [agents EXCEPT ![a] = s]
  BY DEF ReadReport
<1>2. AtWork(old)
  BY <1>1 DEF AtWork, Reporting
<1>3. old \in AgentState /\ InTime(old) /\ InView(old, row)
  BY <1>2, AtWorkFields
<1>4. /\ s.step = "sent" /\ s.job = old.job /\ s.outcome = old.outcome
      /\ s.attempt = old.attempt /\ s.since = old.since /\ s.seen = seen
  BY <1>1, <1>3 DEF AgentState
<1>5. Spent(s) = Spent(old) /\ Verdict(s) = Verdict(old)
  BY <1>1, <1>4 DEF Spent, Verdict
<1>. HIDE DEF s
<1>6. InTime(s) /\ InView(s, row)
  BY <1>1, <1>3, <1>4, <1>5 DEF InTime, InView, Reporting
<1>. QED
  BY <1>1, <1>2, <1>4, <1>6, SameRows

\* What a report leaves in its row, written or not.
LEMMA WriteOutcome ==
    ASSUME VInv, NEW a \in Agents, WriteReport(a)
    PROVE  LET j == agents[a].job IN
           \/ /\ Ignored(agents[a]) /\ jobs' = jobs
              /\ jobs[j].status \in {"deleted", Verdict(agents[a])}
           \/ /\ ~Ignored(agents[a])
              /\ jobs' = [jobs EXCEPT ![j] = Reported(jobs[j], agents[a])]
              /\ jobs[j].status = "printing" /\ agents[a].seen.retry = jobs[j].retry
<1>. DEFINE old == agents[a]
            row == jobs[old.job]
<1>1. old.step = "sent" /\ old.seen # Unread
  BY DEF WriteReport
<1>2. AtWork(old)
  BY <1>1 DEF AtWork, Reporting
<1>3. InView(old, row)
  BY <1>2, AtWorkFields
<1>4. row.status \in {"printing", "deleted", Verdict(old)}
  BY <1>1, <1>3 DEF InView, Reporting
<1>5. row.status # "deleted" => old.seen.status = row.status /\ old.seen.retry = row.retry
  BY <1>1, <1>3 DEF InView
<1>6. Verdict(old) # "pending" /\ Verdict(old) # "printing"
  BY DEF Verdict
<1>7. CASE Ignored(old)
  BY <1>4, <1>5, <1>7 DEF WriteReport, Ignored
<1>8. CASE ~Ignored(old)
  <2>1. row.status # "deleted" /\ old.seen.status \in {"pending", "printing"}
    BY <1>8 DEF WriteReport, Ignored
  <2>2. row.status = "printing"
    BY <1>4, <1>5, <1>6, <2>1
  <2>. QED
    BY <1>5, <1>8, <2>1, <2>2 DEF WriteReport
<1>. QED
  BY <1>7, <1>8

LEMMA WriteInView ==
    ASSUME VInv, NEW a \in Agents, WriteReport(a)
    PROVE  RowsInView' /\ OneAtWork'
<1>. DEFINE old == agents[a]
            j == old.job
            s == [old EXCEPT !.step = "answered"]
            new == Reported(jobs[j], old)
<1>1. old.step = "sent" /\ agents' = [agents EXCEPT ![a] = s]
  BY DEF WriteReport
<1>2. AtWork(old)
  BY <1>1 DEF AtWork, Reporting
<1>3. /\ old \in AgentState /\ j \in Jobs /\ jobs \in [Jobs -> PrintJob]
      /\ InTime(old) /\ InView(old, jobs[j])
  BY <1>2, AtWorkFields
<1>4. /\ s.step = "answered" /\ s.job = j /\ s.outcome = old.outcome
      /\ s.attempt = old.attempt /\ s.since = old.since
  BY <1>3 DEF AgentState
<1>5. Spent(s) = Spent(old) /\ Verdict(s) = Verdict(old)
  BY <1>1, <1>4 DEF Spent, Verdict
<1>6. Spent(old) \in Nat
  BY <1>1, <1>3, SpentInTime DEF Reporting
<1>7. new.status = Verdict(old) /\ new.completed = 0
  BY DEF Reported, Row, Verdict
<1>8. Verdict(old) # "printing"
  BY DEF Verdict
<1>. HIDE DEF s, new
<1>9. InTime(s)
  BY <1>1, <1>3, <1>4 DEF InTime
<1>10. old.outcome # "none"
  BY <1>1, <1>3 DEF InView, Reporting
<1>11. \/ jobs' = jobs /\ jobs[j].status \in {"deleted", Verdict(old)}
       \/ jobs' = [jobs EXCEPT ![j] = new]
  BY WriteOutcome DEF new
<1>. HIDE DEF j
<1>12. \A k \in Jobs \ {j} : jobs'[k] = jobs[k]
  BY <1>3, <1>11
<1>13. InView(s, jobs'[j])
  <2>1. CASE jobs' = jobs /\ jobs[j].status \in {"deleted", Verdict(old)}
    BY <1>1, <1>3, <1>4, <1>5, <1>8, <2>1 DEF InView, Reporting
  <2>2. CASE jobs' = [jobs EXCEPT ![j] = new]
    <3>1. jobs'[j] = new
      BY <1>3, <2>2
    <3>. QED
      BY <1>4, <1>5, <1>6, <1>7, <1>8, <1>10, <3>1 DEF InView, Reporting
  <2>. QED
    BY <1>11, <2>1, <2>2
<1>14. ASSUME NEW b \in Agents \ {a}, AtWork(agents[b])
       PROVE  jobs'[agents[b].job] = jobs[agents[b].job]
  BY <1>2, <1>12, <1>14, AtWorkFields DEF VInv, OneAtWork, j
<1>. QED
  BY <1>1, <1>2, <1>3, <1>4, <1>9, <1>13, <1>14, WorkerStep DEF j

\* The steps that repeat a report or end it.
LEMMA UnheardInView ==
    ASSUME VInv, NEW a \in Agents,
           WriteFindsNoRow(a) \/ Answered(a) \/ ReportUnheard(a) \/ Crash(a)
    PROVE  RowsInView' /\ OneAtWork'
<1>1. UNCHANGED jobs
  BY DEF WriteFindsNoRow, Answered, ReportUnheard, Crash
<1>2. ~AtWork(Idle)
  BY IdleFields DEF AtWork, Reporting
<1>3. \/ agents' = [agents EXCEPT ![a] = Idle]
      \/ /\ agents' = [agents EXCEPT ![a] = NextAttempt(agents[a])]
         /\ agents[a].step \in {"sent", "answered"}
  BY DEF WriteFindsNoRow, Answered, ReportUnheard, Crash, Unanswered
<1>4. CASE agents' = [agents EXCEPT ![a] = Idle]
  BY <1>1, <1>2, <1>4, SameRows
<1>5. CASE /\ agents' = [agents EXCEPT ![a] = NextAttempt(agents[a])]
           /\ agents[a].step \in {"sent", "answered"}
  <2>. DEFINE s == NextAttempt(agents[a])
  <2>1. AtWork(s) => /\ AtWork(agents[a]) /\ s.job = agents[a].job
                     /\ InTime(s) /\ InView(s, jobs[s.job])
    BY <1>5, NextReport
  <2>. HIDE DEF s
  <2>. QED
    BY <1>1, <1>5, <2>1, SameRows DEF s
<1>. QED
  BY <1>3, <1>4, <1>5

LEMMA EditorInView ==
    ASSUME VInv, NEW j \in Jobs, Queue(j) \/ Delete(j)
    PROVE  RowsInView' /\ OneAtWork'
<1>1. jobs \in [Jobs -> PrintJob] /\ agents' = agents
  BY DEF VInv, IInv, TypeOK, Queue, Delete
<1>2. /\ \A k \in Jobs \ {j} : jobs'[k] = jobs[k]
      /\ jobs[j].status = "absent" \/ jobs'[j].status = "deleted"
  BY <1>1 DEF Queue, Delete, Row
<1>3. ASSUME NEW a \in Agents, AtWork(agents[a])
      PROVE  InTime(agents[a]) /\ InView(agents[a], jobs'[agents[a].job])
  <2>1. /\ agents[a].job \in Jobs /\ InTime(agents[a])
        /\ InView(agents[a], jobs[agents[a].job])
    BY <1>3, AtWorkFields
  <2>2. CASE agents[a].job = j
    <3>1. jobs'[j].status = "deleted"
      BY <1>2, <1>3, <2>1, <2>2 DEF InView, AtWork, Verdict
    <3>. QED
      BY <2>1, <2>2, <3>1 DEF InView
  <2>. QED
    BY <1>2, <2>1, <2>2
<1>4. RowsInView'
  BY <1>1, <1>3 DEF RowsInView, AtWork, Reporting, InTime, InView, Spent, Verdict
<1>. QED
  BY <1>1, <1>4 DEF VInv, OneAtWork, AtWork, Reporting

\* A row grows no faster than the agent's patience runs.
LEMMA TickInView ==
    ASSUME VInv, Tick
    PROVE  RowsInView' /\ OneAtWork'
<1>1. jobs \in [Jobs -> PrintJob] /\ agents \in [Agents -> AgentState]
  BY DEF VInv, IInv, TypeOK
<1>2. ASSUME NEW a \in Agents
      PROVE  agents'[a].step = agents[a].step /\ agents'[a].job = agents[a].job
  BY <1>1, <1>2 DEF Tick, AgentState
<1>3. ASSUME NEW a \in Agents, AtWork(agents'[a])
      PROVE  InTime(agents'[a]) /\ InView(agents'[a], jobs'[agents'[a].job])
  <2>. DEFINE old == agents[a]
              new == agents'[a]
              row == jobs[old.job]
              aged == jobs'[old.job]
  <2>1. AtWork(old)
    BY <1>2, <1>3 DEF AtWork, Reporting
  <2>2. /\ old \in AgentState /\ old.job \in Jobs /\ row \in PrintJob
        /\ InTime(old) /\ InView(old, row)
    BY <2>1, AtWorkFields
  <2>3. old.since \in Nat /\ old.since < Patience(old)
    BY <2>1, <2>2 DEF Tick, AtWork, Reporting, AgentState
  <2>4. new = [old EXCEPT !.since = old.since + 1]
    BY <2>1 DEF Tick, AtWork, Reporting
  <2>5. /\ new.step = old.step /\ new.job = old.job /\ new.outcome = old.outcome
        /\ new.attempt = old.attempt /\ new.seen = old.seen
        /\ new.since = old.since + 1
    BY <2>2, <2>4 DEF AgentState
  <2>6. old.step # "report"
    BY <2>3 DEF Patience
  <2>7. /\ old.step = "printing" => old.since < PrintTime
        /\ old.step \in {"sent", "answered"} => old.since < ReportTimeout
    BY <2>3 DEF Patience
  <2>8. InTime(new)
    BY <2>2, <2>3, <2>5, <2>6, <2>7, Constants DEF InTime
  <2>9. aged = Aged(row)
    BY <2>2 DEF Tick
  <2>10. /\ aged.status = row.status /\ aged.retry = row.retry
         /\ row.status = "printing" => aged.claimed = Older(row.claimed)
         /\ row.status = "failed" => aged.completed = Older(row.completed)
    BY <2>9 DEF Aged
  <2>11. /\ row.claimed \in Nat /\ Older(row.claimed) \in Nat
         /\ Older(row.claimed) <= row.claimed + 1
         /\ row.completed \in Nat /\ Older(row.completed) \in Nat
         /\ Older(row.completed) <= row.completed + 1
    BY <2>2, Constants DEF PrintJob, Age, Older
  <2>12. Verdict(new) = Verdict(old)
    BY <2>5 DEF Verdict
  <2>13. CASE old.step = "printing"
    <3>1. row.status = "printing" => row.claimed <= old.since
      BY <2>2, <2>13 DEF InView
    <3>2. row.status \in {"printing", "deleted"}
      BY <2>2, <2>13 DEF InView
    <3>. HIDE DEF old, new, row, aged
    <3>3. row.status = "printing" => aged.claimed <= new.since
      BY <2>3, <2>5, <2>10, <2>11, <3>1
    <3>4. InView(new, aged)
      BY <2>5, <2>10, <2>13, <3>2, <3>3 DEF InView, Reporting
    <3>. QED
      BY <2>5, <2>8, <3>4 DEF old, new, row, aged
  <2>14. CASE Reporting(old)
    <3>1. Spent(old) \in Nat
      BY <2>2, <2>14, SpentInTime
    <3>2. Spent(new) = Spent(old) + 1
      <4>1. old.attempt - 1 \in Nat
        BY <2>2, <2>6, <2>14 DEF InTime, Reporting, AgentState
      <4>2. Attempts(old.attempt - 1) \in Nat
        BY <4>1, AttemptsAdd
      <4>. DEFINE before == Attempts(old.attempt - 1)
      <4>3. Spent(old) = before + old.since /\ Spent(new) = before + (old.since + 1)
        BY <2>5, <2>6 DEF Spent
      <4>4. before \in Nat
        BY <4>2
      <4>. HIDE DEF before, old, new
      <4>. QED
        BY <2>3, <4>3, <4>4
    <3>3. /\ old.outcome # "none"
          /\ row.status \in {"printing", "deleted", Verdict(old)}
          /\ row.status = "printing" => row.claimed <= PrintTime + Spent(old)
          /\ row.status = "failed" => row.completed <= Spent(old)
      BY <2>2, <2>14 DEF InView
    <3>. HIDE DEF old, new, row, aged
    <3>4. /\ row.status = "printing" => aged.claimed <= PrintTime + Spent(new)
          /\ row.status = "failed" => aged.completed <= Spent(new)
      BY <2>10, <2>11, <3>1, <3>2, <3>3, Constants
    <3>5. InView(new, aged)
      BY <2>2, <2>5, <2>10, <2>12, <2>14, <3>3, <3>4 DEF InView, Reporting
    <3>. QED
      BY <2>5, <2>8, <3>5 DEF old, new, row, aged
  <2>. QED
    BY <2>1, <2>13, <2>14 DEF AtWork
<1>4. RowsInView'
  BY <1>3 DEF RowsInView, AtWork, Reporting, InTime, InView, Spent, Verdict
<1>. QED
  BY <1>2, <1>4 DEF VInv, OneAtWork, AtWork, Reporting

LEMMA NextVInv == NobodyTakesAJob /\ VInv /\ [Next]_vars => VInv'
<1>. SUFFICES ASSUME NobodyTakesAJob, VInv, [Next]_vars PROVE RowsInView' /\ OneAtWork'
  BY NextIInv DEF VInv
<1>1. ASSUME NEW a \in Agents, PrintBreaksOff(a) PROVE RowsInView' /\ OneAtWork'
  BY <1>1 DEF PrintBreaksOff, VInv, RowsInView, OneAtWork, AtWork, Reporting,
              InTime, InView, Spent, Verdict
<1>2. ASSUME NEW a \in Agents, Work(a) \/ Fault(a) PROVE RowsInView' /\ OneAtWork'
  BY <1>1, <1>2, PollInView, ClaimInView, ClaimRefusedInView, PrintedInView, SentInView,
     ReadInView, WriteInView, UnheardInView
     DEF Work, Fault, Report
<1>3. CASE UNCHANGED vars
  BY <1>3 DEF vars, VInv, RowsInView, OneAtWork, AtWork, Reporting, InTime, InView,
              Spent, Verdict
<1>. QED
  BY <1>2, <1>3, EditorInView, TickInView DEF Next

LEMMA InitVInv == Init => VInv
<1>. SUFFICES ASSUME Init PROVE VInv
  OBVIOUS
<1>1. \A a \in Agents : ~AtWork(agents[a])
  BY IdleFields DEF Init, AtWork, Reporting
<1>. QED
  BY <1>1, InitIInv DEF VInv, RowsInView, OneAtWork

-----------------------------------------------------------------------------
(* Settled jobs. *)

Settled(row) == row.status \in {"completed", "expired", "deleted"}

\* The rows change by the editors, the polls, the claims and the reports only.
LEMMA RowSteps ==
    ASSUME VInv, NEW a \in Agents, Work(a) \/ Fault(a)
    PROVE  \/ Poll(a) \/ WriteReport(a)
           \/ \E j \in Jobs : jobs[j].status = "pending" /\ jobs' = Claimed(j)
           \/ UNCHANGED jobs
<1>1. ASSUME NEW k \in Jobs, ClaimRefused(a, k) PROVE UNCHANGED jobs
  BY <1>1 DEF ClaimRefused
<1>2. ASSUME Printing(a) \/ PrintBreaksOff(a) PROVE UNCHANGED jobs
  BY <1>2 DEF Printing, PrintOk, PrintFails, PrintBreaksOff
<1>3. ASSUME SendReport(a) \/ ReadReport(a) \/ WriteFindsNoRow(a) \/ Answered(a)
      PROVE  UNCHANGED jobs
  BY <1>3 DEF SendReport, ReadReport, WriteFindsNoRow, Answered
<1>4. ASSUME ReportUnheard(a) \/ Crash(a) PROVE UNCHANGED jobs
  BY <1>4 DEF ReportUnheard, Crash
<1>5. ASSUME NEW k \in Jobs, Claim(a, k) \/ ClaimUnheard(a, k)
      PROVE  jobs[k].status = "pending" /\ jobs' = Claimed(k)
  BY <1>5 DEF Claim, ClaimUnheard
<1>. QED
  BY <1>1, <1>2, <1>3, <1>4, <1>5 DEF Work, Fault, Report

LEMMA NextSettled ==
    ASSUME VInv, [Next]_vars, NEW j \in Jobs, Settled(jobs[j])
    PROVE  jobs'[j].status \in {jobs[j].status, "deleted"}
<1>1. jobs \in [Jobs -> PrintJob]
  BY DEF VInv, IInv, TypeOK
<1>2. ASSUME NEW k \in Jobs, Queue(k) \/ Delete(k)
      PROVE  jobs'[j].status \in {jobs[j].status, "deleted"}
  BY <1>1, <1>2 DEF Queue, Delete, Row, Settled
<1>3. ASSUME NEW a \in Agents, Poll(a) PROVE jobs'[j] = jobs[j]
  <2>1. Requeued(jobs[j]) = jobs[j]
    BY DEF Requeued, Stale, Retryable, Settled
  <2>. QED
    BY <1>3, <2>1 DEF Poll, Reaped, Expired, Settled
<1>4. ASSUME NEW k \in Jobs, jobs[k].status = "pending", jobs' = Claimed(k)
      PROVE  jobs'[j] = jobs[j]
  BY <1>1, <1>4 DEF Claimed, Settled
<1>5. ASSUME NEW a \in Agents, WriteReport(a) PROVE jobs'[j] = jobs[j]
  <2>. DEFINE row == Reported(jobs[agents[a].job], agents[a])
  <2>1. \/ jobs' = jobs
        \/ jobs' = [jobs EXCEPT ![agents[a].job] = row] /\ jobs[agents[a].job].status = "printing"
    BY <1>5, WriteOutcome
  <2>2. jobs[agents[a].job].status = "printing" => agents[a].job # j
    BY DEF Settled
  <2>. HIDE DEF row
  <2>. QED
    BY <1>1, <2>1, <2>2
<1>6. ASSUME NEW a \in Agents, Work(a) \/ Fault(a) PROVE jobs'[j] = jobs[j]
  BY <1>3, <1>4, <1>5, <1>6, RowSteps
<1>7. CASE Tick
  BY <1>1, <1>7, AgedRow DEF Tick
<1>8. CASE UNCHANGED vars
  BY <1>8 DEF vars
<1>. QED
  BY <1>2, <1>6, <1>7, <1>8 DEF Next

LEMMA NextSettledStays == VInv /\ [Next]_vars => SettledStays
BY NextSettled DEF SettledStays, Settled

\* No late or repeated report reopens a job that is completed or expired, with
\* one agent whatever is lost and how often it repeats itself, with several as
\* long as their reports end before the reaper or the retry takes the job.
THEOREM SettledForGood == ASSUME NobodyTakesAJob PROVE Spec => SettledIsFinal
<1>1. VInv /\ [Next]_vars => VInv'
  BY NextVInv
<1>. QED
  BY <1>1, InitVInv, NextSettledStays, PTL DEF Spec, SettledIsFinal

\* The same of the one agent a station has, without a word about its timing.
THEOREM SettledWithOneAgent == ASSUME OneAgent PROVE Spec => SettledIsFinal
BY SettledForGood DEF NobodyTakesAJob

-----------------------------------------------------------------------------
(* A second paper. *)

\* The paper of a job is out and its agent about to say so.
PaperIn(s, j) == Reporting(s) /\ s.job = j /\ s.outcome = "ok"

\* Whatever the backend was not kept in ignorance of came out once at most,
\* and then it is settled or its agent is about to settle it.
PaperOnce ==
    \A j \in Jobs \ unheard :
        paper[j] # 0 => /\ paper[j] = 1
                        /\ Settled(jobs[j]) \/ \E a \in Agents : PaperIn(agents[a], j)

\* An agent prints what has not come out yet.
NoPaperYet ==
    \A a \in Agents : agents[a].step = "printing" =>
        agents[a].job \in unheard \/ paper[agents[a].job] = 0

XInv == VInv /\ PaperOnce /\ NoPaperYet

LEMMA SamePaper ==
    ASSUME XInv, [Next]_vars, UNCHANGED paper, unheard \subseteq unheard',
           \A a \in Agents, j \in Jobs : PaperIn(agents[a], j) =>
               PaperIn(agents'[a], j) \/ Settled(jobs'[j]) \/ j \in unheard',
           \A a \in Agents : agents'[a].step = "printing" =>
               \/ agents[a].step = "printing" /\ agents'[a].job = agents[a].job
               \/ agents'[a].job \in unheard \/ paper[agents'[a].job] = 0
    PROVE  PaperOnce' /\ NoPaperYet'
<1>1. \A j \in Jobs : Settled(jobs[j]) => Settled(jobs'[j])
  BY NextSettled DEF XInv, Settled
<1>2. ASSUME NEW j \in Jobs \ unheard', paper'[j] # 0
      PROVE  /\ paper'[j] = 1
             /\ Settled(jobs'[j]) \/ \E a \in Agents : PaperIn(agents'[a], j)
  <2>1. /\ paper[j] = 1
        /\ Settled(jobs[j]) \/ \E a \in Agents : PaperIn(agents[a], j)
    BY <1>2 DEF XInv, PaperOnce
  <2>. QED
    BY <1>1, <1>2, <2>1
<1>3. PaperOnce'
  BY <1>2 DEF PaperOnce, PaperIn, Reporting, Settled
<1>4. NoPaperYet'
  BY DEF XInv, NoPaperYet
<1>. QED
  BY <1>3, <1>4

\* A step of one agent that puts out no paper and takes up no job.
LEMMA AgentSamePaper ==
    ASSUME XInv, [Next]_vars, UNCHANGED paper, unheard \subseteq unheard',
           NEW a \in Agents, NEW s, agents' = [agents EXCEPT ![a] = s],
           \A j \in Jobs : PaperIn(agents[a], j) =>
               PaperIn(s, j) \/ Settled(jobs'[j]) \/ j \in unheard',
           s.step = "printing" => s.job \in unheard \/ paper[s.job] = 0
    PROVE  PaperOnce' /\ NoPaperYet'
<1>1. agents \in [Agents -> AgentState]
  BY DEF XInv, VInv, IInv, TypeOK
<1>2. agents'[a] = s /\ \A b \in Agents \ {a} : agents'[b] = agents[b]
  BY <1>1
<1>3. \A b \in Agents, j \in Jobs : PaperIn(agents[b], j) =>
         PaperIn(agents'[b], j) \/ Settled(jobs'[j]) \/ j \in unheard'
  BY <1>2
<1>4. \A b \in Agents : agents'[b].step = "printing" =>
         \/ agents[b].step = "printing" /\ agents'[b].job = agents[b].job
         \/ agents'[b].job \in unheard \/ paper[agents'[b].job] = 0
  BY <1>2
<1>. QED
  BY <1>3, <1>4, SamePaper

LEMMA ClaimPaper ==
    ASSUME XInv, [Next]_vars, NEW a \in Agents, NEW j \in Jobs,
           Claim(a, j) \/ ClaimRefused(a, j) \/ ClaimUnheard(a, j)
    PROVE  PaperOnce' /\ NoPaperYet'
<1>. DEFINE working == At("printing", j, "none", 0)
            rest == agents[a].list \ {j}
            less == [agents[a] EXCEPT !.list = rest]
            next == IF rest = {} THEN Idle ELSE less
<1>1. /\ agents[a] \in AgentState /\ agents[a].step = "claiming"
      /\ UNCHANGED <<paper, unheard>>
  BY DEF XInv, VInv, IInv, TypeOK, Claim, ClaimRefused, ClaimUnheard, AtHand
<1>2. \A k \in Jobs : ~PaperIn(agents[a], k)
  BY <1>1 DEF PaperIn, Reporting
<1>3. less.step = "claiming"
  BY <1>1 DEF AgentState
<1>4. next.step # "printing" /\ Idle.step # "printing"
  BY <1>3, IdleFields
<1>5. ASSUME jobs[j].status = "pending" PROVE j \in unheard \/ paper[j] = 0
  <2>1. \A b \in Agents : ~PaperIn(agents[b], j)
    <3>1. ASSUME NEW b \in Agents, PaperIn(agents[b], j) PROVE FALSE
      <4>1. AtWork(agents[b]) /\ agents[b].job = j
        BY <3>1 DEF PaperIn, AtWork
      <4>2. InView(agents[b], jobs[j])
        BY <4>1, AtWorkFields DEF XInv
      <4>. QED
        BY <1>5, <3>1, <4>2 DEF PaperIn, InView, Verdict
    <3>. QED
      BY <3>1
  <2>. QED
    BY <1>5, <2>1 DEF XInv, PaperOnce, Settled
<1>6. working.step = "printing" /\ working.job = j
  BY DEF At
<1>7. \/ agents' = [agents EXCEPT ![a] = working] /\ jobs[j].status = "pending"
      \/ agents' = [agents EXCEPT ![a] = next]
      \/ agents' = [agents EXCEPT ![a] = Idle]
  BY DEF Claim, ClaimRefused, ClaimUnheard
<1>. HIDE DEF working, next
<1>. QED
  BY <1>1, <1>2, <1>4, <1>5, <1>6, <1>7, AgentSamePaper

LEMMA PrintOkPaper ==
    ASSUME XInv, NEW a \in Agents, PrintOk(a)
    PROVE  PaperOnce' /\ NoPaperYet'
<1>. DEFINE j == agents[a].job
            s == At("report", j, "ok", 0)
<1>1. /\ agents \in [Agents -> AgentState] /\ paper \in [Jobs -> 0..2]
      /\ agents[a].step = "printing" /\ UNCHANGED <<jobs, unheard>>
  BY DEF XInv, VInv, IInv, TypeOK, PrintOk
<1>2. AtWork(agents[a])
  BY <1>1 DEF AtWork
<1>3. j \in Jobs
  BY <1>2, AtWorkFields DEF XInv
<1>4. agents' = [agents EXCEPT ![a] = s] /\ paper' = [paper EXCEPT ![j] = OneMore(paper[j])]
  BY DEF PrintOk
<1>5. PaperIn(s, j) /\ s.step # "printing"
  BY DEF At, PaperIn, Reporting
<1>. HIDE DEF s
<1>6. agents'[a] = s /\ \A b \in Agents \ {a} : agents'[b] = agents[b]
  BY <1>1, <1>4
<1>7. j \notin unheard => paper[j] = 0
  BY <1>1 DEF XInv, NoPaperYet
<1>8. \A b \in Agents \ {a} : AtWork(agents[b]) => agents[b].job # j
  BY <1>2 DEF XInv, VInv, OneAtWork
<1>9. \A k \in Jobs : ~PaperIn(agents[a], k)
  BY <1>1 DEF PaperIn, Reporting
<1>. HIDE DEF j
<1>10. \A k \in Jobs \ {j} : paper'[k] = paper[k]
  BY <1>1, <1>4
<1>11. j \notin unheard => paper'[j] = 1
  BY <1>1, <1>3, <1>4, <1>7 DEF OneMore
<1>12. ASSUME NEW k \in Jobs \ unheard, paper'[k] # 0
       PROVE  /\ paper'[k] = 1
              /\ Settled(jobs'[k]) \/ \E b \in Agents : PaperIn(agents'[b], k)
  <2>1. CASE k = j
    BY <1>5, <1>6, <1>11, <1>12, <2>1
  <2>2. CASE k # j
    <3>1. /\ paper[k] = 1
          /\ Settled(jobs[k]) \/ \E b \in Agents : PaperIn(agents[b], k)
      BY <1>10, <1>12, <2>2 DEF XInv, PaperOnce
    <3>. QED
      BY <1>1, <1>6, <1>9, <1>10, <2>2, <3>1
  <2>. QED
    BY <2>1, <2>2
<1>13. PaperOnce'
  BY <1>1, <1>12 DEF PaperOnce, PaperIn, Reporting, Settled
<1>14. ASSUME NEW b \in Agents, agents'[b].step = "printing"
       PROVE  agents'[b].job \in unheard \/ paper'[agents'[b].job] = 0
  <2>1. b # a /\ agents'[b] = agents[b]
    BY <1>5, <1>6, <1>14
  <2>2. AtWork(agents[b])
    BY <1>14, <2>1 DEF AtWork
  <2>3. agents[b].job \in Jobs \ {j}
    BY <1>8, <2>1, <2>2, AtWorkFields DEF XInv
  <2>. QED
    BY <1>10, <1>14, <2>1, <2>3 DEF XInv, NoPaperYet
<1>15. NoPaperYet'
  BY <1>1, <1>14 DEF NoPaperYet
<1>. QED
  BY <1>13, <1>15

\* A printer that breaks off leaves a paper nobody will account for.
LEMMA BreakOffPaper ==
    ASSUME XInv, NEW a \in Agents, PrintBreaksOff(a)
    PROVE  PaperOnce' /\ NoPaperYet'
<1>. DEFINE j == agents[a].job
<1>1. /\ paper \in [Jobs -> 0..2] /\ UNCHANGED <<jobs, agents>>
      /\ paper' = [paper EXCEPT ![j] = OneMore(paper[j])] /\ unheard' = unheard \cup {j}
  BY DEF XInv, VInv, IInv, TypeOK, PrintBreaksOff
<1>2. \A k \in Jobs \ {j} : paper'[k] = paper[k]
  BY <1>1
<1>3. PaperOnce'
  BY <1>1, <1>2 DEF XInv, PaperOnce, PaperIn, Reporting, Settled
<1>4. ASSUME NEW b \in Agents, agents[b].step = "printing"
      PROVE  agents[b].job \in unheard' \/ paper'[agents[b].job] = 0
  <2>1. AtWork(agents[b])
    BY <1>4 DEF AtWork
  <2>2. agents[b].job \in Jobs
    BY <2>1, AtWorkFields DEF XInv
  <2>. QED
    BY <1>1, <1>2, <1>4, <2>2 DEF XInv, NoPaperYet
<1>5. NoPaperYet'
  BY <1>1, <1>4 DEF NoPaperYet
<1>. QED
  BY <1>3, <1>5

LEMMA ReportPaper ==
    ASSUME XInv, [Next]_vars, NEW a \in Agents,
           \/ Poll(a) \/ SendReport(a) \/ ReadReport(a) \/ WriteReport(a)
           \/ \E why \in {"refused", "unreachable"} : PrintFails(a, why)
    PROVE  PaperOnce' /\ NoPaperYet'
<1>. DEFINE old == agents[a]
<1>1. old \in AgentState /\ UNCHANGED <<paper, unheard>>
  BY DEF XInv, VInv, IInv, TypeOK, Poll, SendReport, ReadReport, WriteReport, PrintFails
<1>2. CASE Poll(a)
  <2>. DEFINE next == IF Pending(Reaped) = {} THEN Idle
                      ELSE [At("claiming", -1, "none", 0) EXCEPT !.list = Pending(Reaped)]
  <2>1. next.step # "printing" /\ agents' = [agents EXCEPT ![a] = next]
    BY <1>2 DEF Poll, Idle, At
  <2>2. \A j \in Jobs : ~PaperIn(old, j)
    BY <1>2 DEF Poll, PaperIn, Reporting
  <2>. HIDE DEF next
  <2>. QED
    BY <1>1, <2>1, <2>2, AgentSamePaper
<1>3. CASE SendReport(a)
  <2>. DEFINE s == At("sent", old.job, old.outcome, old.attempt + 1)
  <2>1. s.step = "sent" /\ s.job = old.job /\ s.outcome = old.outcome
    BY DEF At
  <2>2. agents' = [agents EXCEPT ![a] = s]
    BY <1>3 DEF SendReport
  <2>. HIDE DEF s
  <2>3. \A j \in Jobs : PaperIn(old, j) => PaperIn(s, j)
    BY <2>1 DEF PaperIn, Reporting
  <2>. QED
    BY <1>1, <2>1, <2>2, <2>3, AgentSamePaper
<1>4. CASE ReadReport(a)
  <2>. DEFINE seen == [status |-> jobs[old.job].status, retry |-> jobs[old.job].retry]
              s == [old EXCEPT !.seen = seen]
  <2>1. s.step = "sent" /\ s.job = old.job /\ s.outcome = old.outcome
    BY <1>1, <1>4 DEF ReadReport, AgentState
  <2>2. agents' = [agents EXCEPT ![a] = s]
    BY <1>4 DEF ReadReport
  <2>. HIDE DEF s
  <2>3. \A j \in Jobs : PaperIn(old, j) => PaperIn(s, j)
    BY <2>1 DEF PaperIn, Reporting
  <2>. QED
    BY <1>1, <2>1, <2>2, <2>3, AgentSamePaper
<1>5. CASE WriteReport(a)
  <2>. DEFINE s == [old EXCEPT !.step = "answered"]
  <2>1. s.step = "answered" /\ s.job = old.job /\ s.outcome = old.outcome
    BY <1>1 DEF AgentState
  <2>2. agents' = [agents EXCEPT ![a] = s]
    BY <1>5 DEF WriteReport
  <2>. HIDE DEF s
  <2>3. \A j \in Jobs : PaperIn(old, j) => PaperIn(s, j)
    BY <2>1 DEF PaperIn, Reporting
  <2>. QED
    BY <1>1, <2>1, <2>2, <2>3, AgentSamePaper
<1>6. ASSUME NEW why \in {"refused", "unreachable"}, PrintFails(a, why)
      PROVE  PaperOnce' /\ NoPaperYet'
  <2>. DEFINE s == At("report", old.job, why, 0)
  <2>1. s.step # "printing" /\ agents' = [agents EXCEPT ![a] = s]
    BY <1>6 DEF PrintFails, At
  <2>2. \A j \in Jobs : ~PaperIn(old, j)
    BY <1>6 DEF PrintFails, PaperIn, Reporting
  <2>. HIDE DEF s
  <2>. QED
    BY <1>1, <2>1, <2>2, AgentSamePaper
<1>. QED
  BY <1>2, <1>3, <1>4, <1>5, <1>6

\* A report ends with the job settled, or the agent remembers no more of a
\* paper the backend never heard of.
LEMMA ReportEndsPaper ==
    ASSUME XInv, [Next]_vars, NEW a \in Agents,
           WriteFindsNoRow(a) \/ Answered(a) \/ ReportUnheard(a) \/ Crash(a)
    PROVE  PaperOnce' /\ NoPaperYet'
<1>. DEFINE old == agents[a]
            again == At("report", old.job, old.outcome, old.attempt)
<1>1. UNCHANGED <<jobs, paper>> /\ unheard \subseteq unheard'
  BY DEF WriteFindsNoRow, Answered, ReportUnheard, Crash
<1>2. \/ agents' = [agents EXCEPT ![a] = Idle]
      \/ /\ agents' = [agents EXCEPT ![a] = again]
         /\ old.step \in {"sent", "answered"}
  BY DEF WriteFindsNoRow, Answered, ReportUnheard, Crash, NextAttempt, Unanswered
<1>3. again.step = "report" /\ again.job = old.job /\ again.outcome = old.outcome
  BY DEF At
<1>4. ASSUME NEW j \in Jobs, PaperIn(old, j), agents' = [agents EXCEPT ![a] = Idle]
      PROVE  Settled(jobs'[j]) \/ j \in unheard'
  <2>1. AtWork(old) /\ old.job = j /\ old.outcome = "ok"
    BY <1>4 DEF PaperIn, AtWork
  <2>2. InView(old, jobs[j])
    BY <2>1, AtWorkFields DEF XInv
  <2>3. CASE WriteFindsNoRow(a)
    BY <1>1, <2>1, <2>3 DEF WriteFindsNoRow, Settled
  <2>4. CASE Answered(a)
    BY <1>1, <2>1, <2>2, <2>4 DEF Answered, InView, Reporting, Verdict, Settled
  <2>5. CASE ReportUnheard(a)
    <3>1. agents'[a] = Idle /\ agents'[a] = NextAttempt(old)
      BY <1>4, <2>5 DEF ReportUnheard, XInv, VInv, IInv, TypeOK
    <3>. QED
      BY <2>1, <2>5, <3>1 DEF ReportUnheard
  <2>6. CASE Crash(a)
    BY <2>1, <2>6 DEF Crash
  <2>. QED
    BY <2>3, <2>4, <2>5, <2>6
<1>5. \A j \in Jobs : PaperIn(old, j) => PaperIn(again, j)
  BY <1>3 DEF PaperIn, Reporting
<1>. HIDE DEF again
<1>. QED
  BY <1>1, <1>2, <1>3, <1>4, <1>5, IdleFields, AgentSamePaper

LEMMA NextXInv == NobodyTakesAJob /\ XInv /\ [Next]_vars => XInv'
<1>. SUFFICES ASSUME NobodyTakesAJob, XInv, [Next]_vars PROVE PaperOnce' /\ NoPaperYet'
  BY NextVInv DEF XInv
<1>1. ASSUME NEW a \in Agents, Work(a) \/ Fault(a) PROVE PaperOnce' /\ NoPaperYet'
  BY <1>1, ClaimPaper, PrintOkPaper, BreakOffPaper, ReportPaper, ReportEndsPaper
     DEF Work, Fault, Report, Printing
<1>2. ASSUME NEW j \in Jobs, Queue(j) \/ Delete(j) PROVE PaperOnce' /\ NoPaperYet'
  <2>1. UNCHANGED <<agents, paper, unheard>>
    BY <1>2 DEF Queue, Delete
  <2>. QED
    BY <2>1, SamePaper
<1>3. CASE Tick
  <2>1. agents \in [Agents -> AgentState] /\ UNCHANGED <<paper, unheard>>
    BY <1>3 DEF Tick, XInv, VInv, IInv, TypeOK
  <2>2. \A a \in Agents : /\ agents'[a].step = agents[a].step
                          /\ agents'[a].job = agents[a].job
                          /\ agents'[a].outcome = agents[a].outcome
    BY <1>3, <2>1 DEF Tick, AgentState
  <2>3. \A a \in Agents, j \in Jobs : PaperIn(agents[a], j) => PaperIn(agents'[a], j)
    BY <2>2 DEF PaperIn, Reporting
  <2>. QED
    BY <2>1, <2>2, <2>3, SamePaper
<1>4. CASE UNCHANGED vars
  <2>1. UNCHANGED <<agents, paper, unheard>>
    BY <1>4 DEF vars
  <2>. QED
    BY <2>1, SamePaper
<1>. QED
  BY <1>1, <1>2, <1>3, <1>4 DEF Next

LEMMA InitXInv == Init => XInv
<1>. SUFFICES ASSUME Init PROVE PaperOnce /\ NoPaperYet
  BY InitVInv DEF XInv
<1>. QED
  BY IdleFields DEF Init, PaperOnce, NoPaperYet

\* A job comes out of a printer twice only if a printer broke off, the agent
\* died with the paper out or no attempt to report it was heard: the reaper,
\* the retry and repeated reports print nothing a second time.
THEOREM SecondPaperHasACause == ASSUME NobodyTakesAJob PROVE Spec => []SecondPaperExplained
<1>1. XInv /\ [Next]_vars => XInv'
  BY NextXInv
<1>2. XInv => SecondPaperExplained
  BY DEF XInv, PaperOnce, SecondPaperExplained
<1>. QED
  BY <1>1, <1>2, InitXInv, PTL DEF Spec

-----------------------------------------------------------------------------
(* The count of attempts. *)

\* A refusal on its way to the backend has been counted among the failures.
RefusalCounted ==
    \A a \in Agents :
        /\ Reporting(agents[a]) /\ agents[a].outcome = "refused"
        /\ jobs[agents[a].job].status = "printing"
        => jobs[agents[a].job].retry < failed[agents[a].job]

RInv == VInv /\ RetryCountsAttempts /\ RefusalCounted

\* No step of an agent alters the row of a job another one is at.
LEMMA OthersUntouched ==
    ASSUME NobodyTakesAJob, VInv, NEW a \in Agents, Work(a) \/ Fault(a),
           NEW b \in Agents \ {a}, AtWork(agents[b])
    PROVE  jobs'[agents[b].job] = jobs[agents[b].job]
<1>1. /\ jobs \in [Jobs -> PrintJob] /\ agents[b].job \in Jobs
      /\ InView(agents[b], jobs[agents[b].job])
  BY AtWorkFields
<1>2. ASSUME WriteReport(a) PROVE jobs'[agents[b].job] = jobs[agents[b].job]
  <2>1. AtWork(agents[a])
    BY <1>2 DEF WriteReport, AtWork, Reporting
  <2>2. agents[a].job # agents[b].job
    BY <2>1 DEF VInv, OneAtWork
  <2>. DEFINE row == Reported(jobs[agents[a].job], agents[a])
  <2>3. jobs' = jobs \/ jobs' = [jobs EXCEPT ![agents[a].job] = row]
    BY <1>2 DEF WriteReport
  <2>. HIDE DEF row
  <2>. QED
    BY <1>1, <2>2, <2>3
<1>3. ASSUME NEW j \in Jobs, jobs[j].status = "pending", jobs' = Claimed(j)
      PROVE  jobs'[agents[b].job] = jobs[agents[b].job]
  <2>1. agents[b].job # j
    BY <1>1, <1>3 DEF InView, AtWork, Verdict
  <2>. QED
    BY <1>1, <1>3, <2>1 DEF Claimed
<1>. QED
  BY <1>2, <1>3, RowSteps, PollInView

LEMMA CountingStep ==
    ASSUME NobodyTakesAJob, RInv, NEW a \in Agents, Work(a) \/ Fault(a),
           NEW s, agents' = [agents EXCEPT ![a] = s],
           \A j \in Jobs : jobs'[j].retry <= failed'[j] /\ failed'[j] >= failed[j],
           failed' \in [Jobs -> Nat], jobs' \in [Jobs -> PrintJob],
           Reporting(s) /\ s.outcome = "refused" /\ jobs'[s.job].status = "printing" =>
               jobs'[s.job].retry < failed'[s.job]
    PROVE  RetryCountsAttempts' /\ RefusalCounted'
<1>1. agents \in [Agents -> AgentState] /\ failed \in [Jobs -> Nat] /\ jobs \in [Jobs -> PrintJob]
  BY DEF RInv, VInv, IInv, TypeOK
<1>2. agents'[a] = s /\ \A b \in Agents \ {a} : agents'[b] = agents[b]
  BY <1>1
<1>3. ASSUME NEW b \in Agents \ {a}, Reporting(agents[b]), agents[b].outcome = "refused",
             jobs'[agents[b].job].status = "printing"
      PROVE  jobs'[agents[b].job].retry < failed'[agents[b].job]
  <2>. DEFINE j == agents[b].job
  <2>1. AtWork(agents[b])
    BY <1>3 DEF AtWork
  <2>2. j \in Jobs /\ jobs'[j] = jobs[j]
    BY <2>1, OthersUntouched, AtWorkFields DEF RInv
  <2>3. jobs[j].retry < failed[j]
    BY <1>3, <2>2 DEF RInv, RefusalCounted
  <2>4. failed[j] \in Nat /\ failed'[j] \in Nat /\ jobs[j].retry \in Nat /\ failed'[j] >= failed[j]
    BY <1>1, <2>2 DEF PrintJob
  <2>. HIDE DEF j
  <2>5. jobs'[j].retry < failed'[j]
    BY <2>2, <2>3, <2>4
  <2>. QED
    BY <2>5 DEF j
<1>4. RefusalCounted'
  BY <1>2, <1>3 DEF RefusalCounted, Reporting
<1>5. RetryCountsAttempts'
  BY DEF RetryCountsAttempts
<1>. QED
  BY <1>4, <1>5

\* The reaper counts the claim it takes back, the retry counts nothing.
LEMMA RequeuedCount ==
    ASSUME NEW job \in PrintJob, NEW ttl
    PROVE  Expired(Requeued(job), ttl).retry = IF Stale(job) THEN job.retry + 1 ELSE job.retry
<1>. DEFINE back == Requeued(job)
<1>1. Row("pending", job.retry + 1, job.created).retry = job.retry + 1
  BY DEF Row
<1>2. Row("pending", job.retry, job.created).retry = job.retry
  BY DEF Row
<1>3. back.retry = IF Stale(job) THEN job.retry + 1 ELSE job.retry
  BY <1>1, <1>2 DEF Requeued
<1>4. back \in PrintJob
  BY RequeuedRow
<1>. HIDE DEF back
<1>5. Expired(back, ttl).retry = back.retry
  BY <1>4 DEF Expired, PrintJob
<1>. QED
  BY <1>3, <1>5 DEF back

LEMMA PollCount ==
    ASSUME NobodyTakesAJob, RInv, IInv', NEW a \in Agents, Poll(a)
    PROVE  RetryCountsAttempts' /\ RefusalCounted'
<1>. DEFINE next == IF Pending(Reaped) = {} THEN Idle
                    ELSE [At("claiming", -1, "none", 0) EXCEPT !.list = Pending(Reaped)]
<1>1. ~Reporting(next) /\ agents' = [agents EXCEPT ![a] = next]
  BY DEF Poll, Idle, At, Reporting
<1>2. /\ jobs \in [Jobs -> PrintJob] /\ failed \in [Jobs -> Nat]
      /\ jobs' \in [Jobs -> PrintJob] /\ failed' \in [Jobs -> Nat]
  BY DEF RInv, VInv, IInv, TypeOK
<1>3. ASSUME NEW j \in Jobs
      PROVE  jobs'[j].retry <= failed'[j] /\ failed'[j] >= failed[j]
  <2>1. jobs'[j] = Expired(Requeued(jobs[j]), Ttl[j]) /\ jobs[j] \in PrintJob
    BY <1>2 DEF Poll, Reaped
  <2>2. jobs'[j].retry = IF Stale(jobs[j]) THEN jobs[j].retry + 1 ELSE jobs[j].retry
    BY <2>1, RequeuedCount
  <2>3. failed'[j] = IF Stale(jobs[j]) THEN failed[j] + 1 ELSE failed[j]
    BY DEF Poll
  <2>4. jobs[j].retry \in Nat /\ failed[j] \in Nat /\ jobs[j].retry <= failed[j]
    BY <1>2, <2>1 DEF PrintJob, RInv, RetryCountsAttempts
  <2>. QED
    BY <2>2, <2>3, <2>4
<1>. HIDE DEF next
<1>. QED
  BY <1>1, <1>2, <1>3, CountingStep DEF Work

LEMMA ClaimCount ==
    ASSUME NobodyTakesAJob, RInv, IInv', NEW a \in Agents, NEW j \in Jobs,
           Claim(a, j) \/ ClaimRefused(a, j) \/ ClaimUnheard(a, j)
    PROVE  RetryCountsAttempts' /\ RefusalCounted'
<1>. DEFINE working == At("printing", j, "none", 0)
            rest == agents[a].list \ {j}
            less == [agents[a] EXCEPT !.list = rest]
            next == IF rest = {} THEN Idle ELSE less
            row == Row("printing", jobs[j].retry, jobs[j].created)
<1>1. /\ agents[a] \in AgentState /\ agents[a].step = "claiming" /\ UNCHANGED failed
      /\ jobs \in [Jobs -> PrintJob] /\ failed \in [Jobs -> Nat]
      /\ jobs' \in [Jobs -> PrintJob] /\ failed' \in [Jobs -> Nat]
  BY DEF RInv, VInv, IInv, TypeOK, Claim, ClaimRefused, ClaimUnheard, AtHand
<1>2. less.step = "claiming"
  BY <1>1 DEF AgentState
<1>3. ~Reporting(working) /\ ~Reporting(next) /\ ~Reporting(Idle)
  BY <1>2, IdleFields DEF At, Reporting
<1>4. \/ agents' = [agents EXCEPT ![a] = working]
      \/ agents' = [agents EXCEPT ![a] = next]
      \/ agents' = [agents EXCEPT ![a] = Idle]
  BY DEF Claim, ClaimRefused, ClaimUnheard
<1>5. jobs' = jobs \/ jobs' = [jobs EXCEPT ![j] = row]
  BY DEF Claim, ClaimRefused, ClaimUnheard, Claimed
<1>6. row.retry = jobs[j].retry
  BY DEF Row
<1>. HIDE DEF row, working, next
<1>7. ASSUME NEW k \in Jobs PROVE jobs'[k].retry <= failed'[k] /\ failed'[k] >= failed[k]
  <2>1. jobs'[k].retry = jobs[k].retry
    BY <1>1, <1>5, <1>6
  <2>2. jobs[k].retry <= failed[k] /\ failed[k] \in Nat
    BY <1>1 DEF RInv, RetryCountsAttempts
  <2>. QED
    BY <1>1, <2>1, <2>2
<1>. QED
  BY <1>1, <1>3, <1>4, <1>7, CountingStep DEF Work, Fault

\* A step that leaves rows and failures alone, and what its agent reports.
LEMMA SameCount ==
    ASSUME NobodyTakesAJob, RInv, NEW a \in Agents, Work(a) \/ Fault(a),
           NEW s, agents' = [agents EXCEPT ![a] = s], UNCHANGED <<jobs, failed>>,
           Reporting(s) /\ s.outcome = "refused" =>
               /\ Reporting(agents[a]) /\ agents[a].outcome = "refused"
               /\ s.job = agents[a].job
    PROVE  RetryCountsAttempts' /\ RefusalCounted'
<1>1. jobs \in [Jobs -> PrintJob] /\ failed \in [Jobs -> Nat]
  BY DEF RInv, VInv, IInv, TypeOK
<1>2. \A j \in Jobs : jobs'[j].retry <= failed'[j] /\ failed'[j] >= failed[j]
  BY <1>1 DEF RInv, RetryCountsAttempts
<1>3. Reporting(s) /\ s.outcome = "refused" /\ jobs'[s.job].status = "printing" =>
         jobs'[s.job].retry < failed'[s.job]
  BY DEF RInv, RefusalCounted
<1>. QED
  BY <1>1, <1>2, <1>3, CountingStep

LEMMA PrintedCount ==
    ASSUME NobodyTakesAJob, RInv, NEW a \in Agents, Printing(a)
    PROVE  RetryCountsAttempts' /\ RefusalCounted'
<1>. DEFINE j == agents[a].job
<1>1. agents[a].step = "printing" /\ UNCHANGED jobs
  BY DEF Printing, PrintOk, PrintFails
<1>2. AtWork(agents[a])
  BY <1>1 DEF AtWork
<1>3. /\ j \in Jobs /\ jobs \in [Jobs -> PrintJob] /\ failed \in [Jobs -> Nat]
  BY <1>2, AtWorkFields DEF RInv, VInv, IInv, TypeOK
<1>4. CASE PrintOk(a)
  <2>. DEFINE s == At("report", j, "ok", 0)
  <2>1. s.outcome # "refused" /\ agents' = [agents EXCEPT ![a] = s] /\ UNCHANGED failed
    BY <1>4 DEF PrintOk, At
  <2>. HIDE DEF s
  <2>. QED
    BY <1>1, <1>4, <2>1, SameCount DEF Work, Printing
<1>5. CASE PrintFails(a, "unreachable")
  <2>. DEFINE s == At("report", j, "unreachable", 0)
  <2>1. s.outcome # "refused" /\ agents' = [agents EXCEPT ![a] = s]
    BY <1>5 DEF PrintFails, At
  <2>2. UNCHANGED failed
    BY <1>3, <1>5 DEF PrintFails
  <2>. HIDE DEF s
  <2>. QED
    BY <1>1, <1>5, <2>1, <2>2, SameCount DEF Work, Printing
<1>6. CASE PrintFails(a, "refused")
  <2>. DEFINE s == At("report", j, "refused", 0)
  <2>1. s.job = j /\ agents' = [agents EXCEPT ![a] = s]
    BY <1>6 DEF PrintFails, At
  <2>2. failed' = [failed EXCEPT ![j] = failed[j] + 1]
    BY <1>6 DEF PrintFails
  <2>. HIDE DEF s, j
  <2>3. failed' \in [Jobs -> Nat] /\ failed'[j] = failed[j] + 1
    BY <1>3, <2>2
  <2>4. ASSUME NEW k \in Jobs PROVE jobs'[k].retry <= failed'[k] /\ failed'[k] >= failed[k]
    <3>1. jobs[k].retry \in Nat /\ failed[k] \in Nat /\ jobs[k].retry <= failed[k]
      BY <1>3 DEF PrintJob, RInv, RetryCountsAttempts
    <3>2. failed'[k] \in {failed[k], failed[k] + 1}
      BY <1>3, <2>2
    <3>. QED
      BY <1>1, <3>1, <3>2
  <2>5. jobs'[s.job].retry < failed'[s.job]
    <3>1. jobs[j].retry \in Nat /\ failed[j] \in Nat /\ jobs[j].retry <= failed[j]
      BY <1>3 DEF PrintJob, RInv, RetryCountsAttempts
    <3>. QED
      BY <1>1, <2>1, <2>3, <3>1
  <2>. QED
    BY <1>1, <1>3, <1>6, <2>1, <2>3, <2>4, <2>5, CountingStep DEF Work, Printing
<1>. QED
  BY <1>4, <1>5, <1>6 DEF Printing

\* The count a refusal writes is the one it read, plus the attempt that failed.
LEMMA WriteCount ==
    ASSUME NobodyTakesAJob, RInv, IInv', NEW a \in Agents, WriteReport(a)
    PROVE  RetryCountsAttempts' /\ RefusalCounted'
<1>. DEFINE old == agents[a]
            j == old.job
            s == [old EXCEPT !.step = "answered"]
            new == Reported(jobs[j], old)
<1>1. /\ agents \in [Agents -> AgentState] /\ jobs \in [Jobs -> PrintJob]
      /\ failed \in [Jobs -> Nat] /\ UNCHANGED failed
      /\ jobs' \in [Jobs -> PrintJob] /\ failed' \in [Jobs -> Nat]
  BY DEF RInv, VInv, IInv, TypeOK, WriteReport
<1>2. old.step = "sent" /\ agents' = [agents EXCEPT ![a] = s]
  BY DEF WriteReport
<1>3. Reporting(old) /\ old \in AgentState
  BY <1>1, <1>2 DEF Reporting
<1>4. j \in Jobs
  BY <1>3, AtWorkFields DEF RInv, AtWork
<1>5. s.step = "answered" /\ s.job = j
  BY <1>3 DEF AgentState
<1>6. RowsInView'
  BY WriteInView DEF RInv
<1>7. jobs'[s.job].status # "printing"
  <2>1. agents'[a] = s
    BY <1>1, <1>2
  <2>. HIDE DEF s
  <2>2. agents'[a].step = "answered"
    BY <1>5, <2>1
  <2>3. jobs'[agents'[a].job].status # "printing"
    BY <1>6, <2>2 DEF RowsInView, AtWork, Reporting, InView
  <2>. QED
    BY <2>1, <2>3
<1>8. ASSUME jobs[j].status = "printing", old.seen.retry = jobs[j].retry
      PROVE  new.retry <= failed[j]
  <2>1. jobs[j].retry \in Nat /\ failed[j] \in Nat /\ jobs[j].retry <= failed[j]
    BY <1>1, <1>4 DEF PrintJob, RInv, RetryCountsAttempts
  <2>2. CASE old.outcome \in {"ok", "unreachable"}
    <3>1. new.retry = jobs[j].retry
      BY <2>2 DEF Reported, Row
    <3>. QED
      BY <2>1, <3>1
  <2>3. CASE old.outcome \notin {"ok", "unreachable"}
    <3>1. new.retry = jobs[j].retry + 1
      BY <1>8, <2>3 DEF Reported, Row
    <3>2. CASE old.outcome = "refused"
      <4>1. jobs[j].retry < failed[j]
        BY <1>3, <1>8, <3>2 DEF RInv, RefusalCounted
      <4>. HIDE DEF new, j
      <4>. QED
        BY <2>1, <3>1, <4>1
    <3>3. old.outcome # "none"
      BY <1>3, AtWorkFields DEF RInv, AtWork, InView
    <3>. QED
      BY <1>3, <2>3, <3>2, <3>3 DEF AgentState, Outcome
  <2>. QED
    BY <2>2, <2>3
<1>9. \/ jobs' = jobs
      \/ /\ jobs' = [jobs EXCEPT ![j] = new]
         /\ jobs[j].status = "printing" /\ old.seen.retry = jobs[j].retry
  BY WriteOutcome DEF RInv
<1>. HIDE DEF new, s, j, old
<1>10. ASSUME NEW k \in Jobs PROVE jobs'[k].retry <= failed'[k] /\ failed'[k] >= failed[k]
  <2>1. jobs[k].retry <= failed[k] /\ failed[k] \in Nat
    BY <1>1 DEF RInv, RetryCountsAttempts
  <2>2. jobs'[k] = jobs[k] \/ (k = j /\ jobs'[k] = new /\ new.retry <= failed[j])
    BY <1>1, <1>8, <1>9
  <2>. QED
    BY <1>1, <2>1, <2>2
<1>. QED
  BY <1>1, <1>2, <1>7, <1>10, CountingStep DEF Work, Report

LEMMA ReportCount ==
    ASSUME NobodyTakesAJob, RInv, NEW a \in Agents,
           \/ SendReport(a) \/ ReadReport(a) \/ WriteFindsNoRow(a) \/ Answered(a)
           \/ ReportUnheard(a) \/ Crash(a)
    PROVE  RetryCountsAttempts' /\ RefusalCounted'
<1>. DEFINE old == agents[a]
            sent == At("sent", old.job, old.outcome, old.attempt + 1)
            again == At("report", old.job, old.outcome, old.attempt)
            seen == [status |-> jobs[old.job].status, retry |-> jobs[old.job].retry]
            read == [old EXCEPT !.seen = seen]
<1>1. UNCHANGED <<jobs, failed>> /\ old \in AgentState /\ (Work(a) \/ Fault(a))
  BY DEF SendReport, ReadReport, WriteFindsNoRow, Answered, ReportUnheard, Crash,
         RInv, VInv, IInv, TypeOK, Work, Fault, Report
<1>2. sent.job = old.job /\ sent.outcome = old.outcome
  BY DEF At
<1>3. again.job = old.job /\ again.outcome = old.outcome
  BY DEF At
<1>4. read.job = old.job /\ read.outcome = old.outcome
  BY <1>1 DEF AgentState
<1>5. \/ agents' = [agents EXCEPT ![a] = sent] /\ Reporting(old)
      \/ agents' = [agents EXCEPT ![a] = again] /\ Reporting(old)
      \/ agents' = [agents EXCEPT ![a] = read] /\ Reporting(old)
      \/ agents' = [agents EXCEPT ![a] = Idle]
  BY DEF SendReport, ReadReport, WriteFindsNoRow, Answered, ReportUnheard, Crash,
         NextAttempt, Unanswered, Reporting
<1>6. ~Reporting(Idle)
  BY IdleFields DEF Reporting
<1>. HIDE DEF sent, again, read
<1>. QED
  BY <1>1, <1>2, <1>3, <1>4, <1>5, <1>6, SameCount

LEMMA EditorCount ==
    ASSUME RInv, NEW j \in Jobs, Queue(j) \/ Delete(j)
    PROVE  RetryCountsAttempts' /\ RefusalCounted'
<1>. DEFINE row == IF Queue(j) THEN Row("pending", 0, 0) ELSE Row("deleted", 0, 0)
<1>1. row.retry = 0 /\ row.status # "printing"
  BY DEF Row
<1>2. /\ jobs' = [jobs EXCEPT ![j] = row] /\ UNCHANGED <<agents, failed>>
      /\ jobs \in [Jobs -> PrintJob] /\ failed \in [Jobs -> Nat]
  BY DEF Queue, Delete, RInv, VInv, IInv, TypeOK
<1>. HIDE DEF row
<1>3. jobs'[j] = row /\ \A k \in Jobs \ {j} : jobs'[k] = jobs[k]
  BY <1>2
<1>4. RetryCountsAttempts'
  BY <1>1, <1>2, <1>3 DEF RInv, RetryCountsAttempts
<1>5. ASSUME NEW a \in Agents, Reporting(agents[a]), agents[a].outcome = "refused",
             jobs'[agents[a].job].status = "printing"
      PROVE  jobs'[agents[a].job].retry < failed'[agents[a].job]
  <2>1. agents[a].job \in Jobs
    BY <1>5, AtWorkFields DEF RInv, AtWork
  <2>2. jobs'[agents[a].job] = jobs[agents[a].job]
    BY <1>1, <1>3, <1>5, <2>1
  <2>. QED
    BY <1>2, <1>5, <2>2 DEF RInv, RefusalCounted
<1>6. RefusalCounted'
  BY <1>2, <1>5 DEF RefusalCounted, Reporting
<1>. QED
  BY <1>4, <1>6

LEMMA TickCount ==
    ASSUME RInv, Tick
    PROVE  RetryCountsAttempts' /\ RefusalCounted'
<1>1. /\ jobs \in [Jobs -> PrintJob] /\ agents \in [Agents -> AgentState] /\ UNCHANGED failed
  BY DEF RInv, VInv, IInv, TypeOK, Tick
<1>2. \A j \in Jobs : jobs'[j].status = jobs[j].status /\ jobs'[j].retry = jobs[j].retry
  BY DEF Tick, Aged
<1>3. \A a \in Agents : /\ agents'[a].step = agents[a].step
                        /\ agents'[a].job = agents[a].job
                        /\ agents'[a].outcome = agents[a].outcome
  BY <1>1 DEF Tick, AgentState
<1>4. RetryCountsAttempts'
  BY <1>1, <1>2 DEF RInv, RetryCountsAttempts
<1>5. \A a \in Agents : Reporting(agents[a]) => agents[a].job \in Jobs
  BY AtWorkFields DEF RInv, AtWork
<1>6. RefusalCounted'
  BY <1>1, <1>2, <1>3, <1>5 DEF RInv, RefusalCounted, Reporting
<1>. QED
  BY <1>4, <1>6

LEMMA NextRInv == NobodyTakesAJob /\ RInv /\ [Next]_vars => RInv'
<1>. SUFFICES ASSUME NobodyTakesAJob, RInv, [Next]_vars
              PROVE  RetryCountsAttempts' /\ RefusalCounted'
  BY NextVInv DEF RInv
<1>1. IInv'
  BY NextIInv DEF RInv, VInv
<1>2. ASSUME NEW a \in Agents, PrintBreaksOff(a)
      PROVE  RetryCountsAttempts' /\ RefusalCounted'
  BY <1>2 DEF PrintBreaksOff, RInv, RetryCountsAttempts, RefusalCounted, Reporting
<1>3. ASSUME NEW a \in Agents, Work(a) \/ Fault(a)
      PROVE  RetryCountsAttempts' /\ RefusalCounted'
  BY <1>1, <1>2, <1>3, PollCount, ClaimCount, PrintedCount, WriteCount, ReportCount
     DEF Work, Fault, Report
<1>4. CASE UNCHANGED vars
  BY <1>4 DEF vars, RInv, RetryCountsAttempts, RefusalCounted, Reporting
<1>. QED
  BY <1>3, <1>4, EditorCount, TickCount DEF Next

\* retry_count never exceeds the attempts that were refused or got lost: a
\* printer that does not answer and a report that is repeated cost nothing.
THEOREM AttemptsCountedOnce == ASSUME NobodyTakesAJob PROVE Spec => []RetryCountsAttempts
<1>1. Init => RInv
  <2>. SUFFICES ASSUME Init PROVE RetryCountsAttempts /\ RefusalCounted
    BY InitVInv DEF RInv
  <2>. QED
    BY IdleFields, RowFields, Constants DEF Init, RetryCountsAttempts, RefusalCounted,
       Reporting, JobStatus, Age
<1>2. RInv /\ [Next]_vars => RInv'
  BY NextRInv
<1>3. RInv => RetryCountsAttempts
  BY DEF RInv
<1>. QED
  BY <1>1, <1>2, <1>3, PTL DEF Spec
-----------------------------------------------------------------------------
(* What the queue promises of every slip. *)

SlipKeeps(j) == [Slip(j)!Next]_(Slip(j)!vars)

\* A step the slip does not see.
LEMMA SlipUnseen ==
    ASSUME NEW j \in Jobs, SlipState(jobs'[j]) = SlipState(jobs[j]),
           paper'[j] = paper[j], j \in unheard' <=> j \in unheard
    PROVE  SlipKeeps(j)
BY DEF SlipKeeps, Slip!vars

LEMMA SlipGoesUnheard ==
    ASSUME NEW j \in Jobs, SlipState(jobs'[j]) = SlipState(jobs[j]),
           paper'[j] = paper[j], paper[j] > 0, j \in unheard'
    PROVE  SlipKeeps(j)
BY DEF SlipKeeps, Slip!Next, Slip!GoUnheard

LEMMA SlipSettles ==
    ASSUME NEW j \in Jobs, SlipState(jobs[j]) = "queued",
           \/ SlipState(jobs'[j]) = "expired"
           \/ SlipState(jobs'[j]) = "completed" /\ paper[j] > 0,
           paper'[j] = paper[j], j \in unheard' <=> j \in unheard
    PROVE  SlipKeeps(j)
BY DEF SlipKeeps, Slip!Next, Slip!Complete, Slip!Expire

LEMMA EditorSlip ==
    ASSUME XInv, NEW k \in Jobs, Queue(k) \/ Delete(k), NEW j \in Jobs
    PROVE  SlipKeeps(j)
<1>1. /\ jobs \in [Jobs -> PrintJob] /\ UNCHANGED <<paper, unheard>>
      /\ k # j => jobs'[j] = jobs[j]
  BY DEF Queue, Delete, XInv, VInv, IInv, TypeOK
<1>2. CASE k # j
  BY <1>1, <1>2, SlipUnseen
<1>3. CASE k = j /\ Queue(j)
  <2>1. jobs[j].status = "absent" /\ jobs'[j].status = "pending"
    BY <1>1, <1>3 DEF Queue, Row
  <2>. QED
    BY <1>1, <2>1 DEF SlipKeeps, SlipState, Slip!Next, Slip!Submit
<1>4. CASE k = j /\ Delete(j)
  <2>1. /\ jobs[j].status \in JobStatus \ {"absent", "deleted"}
        /\ jobs'[j].status = "deleted"
    BY <1>1, <1>4 DEF Delete, Row, PrintJob
  <2>2. /\ SlipState(jobs[j]) \in {"queued", "completed", "expired"}
        /\ SlipState(jobs'[j]) = "deleted"
    BY <2>1 DEF SlipState, JobStatus
  <2>. QED
    BY <1>1, <2>2 DEF SlipKeeps, Slip!Next, Slip!Delete
<1>. QED
  BY <1>2, <1>3, <1>4

LEMMA PollSlip ==
    ASSUME XInv, NEW a \in Agents, Poll(a), NEW j \in Jobs
    PROVE  SlipKeeps(j)
<1>. DEFINE again == Requeued(jobs[j])
<1>1. /\ jobs'[j] = Expired(again, Ttl[j])
      /\ UNCHANGED <<paper, unheard>>
  BY DEF Poll, Reaped
<1>2. SlipState(again) = SlipState(jobs[j])
  BY DEF Requeued, Stale, Retryable, Row, SlipState
<1>3. again \in PrintJob
  BY RequeuedRow DEF XInv, VInv, IInv, TypeOK
<1>. HIDE DEF again
<1>4. CASE jobs'[j] = again
  BY <1>1, <1>2, <1>4, SlipUnseen
<1>5. CASE jobs'[j] # again
  <2>1. again.status = "pending" /\ jobs'[j] = [again EXCEPT !.status = "expired"]
    BY <1>1, <1>5 DEF Expired
  <2>2. jobs'[j].status = "expired"
    BY <1>3, <2>1 DEF PrintJob
  <2>. QED
    BY <1>1, <1>2, <2>1, <2>2, SlipSettles DEF SlipState
<1>. QED
  BY <1>4, <1>5

LEMMA ClaimSlip ==
    ASSUME XInv, NEW a \in Agents, NEW k \in Jobs, Claim(a, k) \/ ClaimUnheard(a, k),
           NEW j \in Jobs
    PROVE  SlipKeeps(j)
<1>1. /\ jobs \in [Jobs -> PrintJob] /\ jobs[k].status = "pending"
      /\ jobs' = Claimed(k) /\ UNCHANGED <<paper, unheard>>
  BY DEF Claim, ClaimUnheard, XInv, VInv, IInv, TypeOK
<1>2. SlipState(jobs'[j]) = SlipState(jobs[j])
  BY <1>1 DEF Claimed, Row, SlipState
<1>. QED
  BY <1>1, <1>2, SlipUnseen

\* A report completes a slip only once its paper is out.
LEMMA WriteSlip ==
    ASSUME XInv, NEW a \in Agents, WriteReport(a), NEW j \in Jobs
    PROVE  SlipKeeps(j)
<1>. DEFINE s == agents[a]
            new == Reported(jobs[s.job], s)
<1>1. /\ jobs \in [Jobs -> PrintJob] /\ UNCHANGED <<paper, unheard>>
      /\ s.outcome = "ok" => paper[s.job] > 0
  BY DEF WriteReport, XInv, VInv, IInv, TypeOK, OkMeansPaper
<1>2. /\ new.status \in {"completed", "failed"}
      /\ new.status = "completed" => s.outcome = "ok"
  BY DEF Reported, Row
<1>3. \/ jobs' = jobs
      \/ jobs' = [jobs EXCEPT ![s.job] = new] /\ jobs[s.job].status = "printing"
  BY WriteOutcome DEF XInv
<1>. HIDE DEF new, s
<1>4. CASE jobs'[j] = jobs[j]
  BY <1>1, <1>4, SlipUnseen
<1>5. CASE jobs'[j] # jobs[j]
  <2>1. s.job = j /\ jobs'[j] = new /\ jobs[j].status = "printing"
    BY <1>1, <1>3, <1>5
  <2>2. SlipState(jobs[j]) = "queued"
    BY <2>1 DEF SlipState
  <2>3. CASE new.status = "completed"
    BY <1>1, <1>2, <2>1, <2>2, <2>3, SlipSettles DEF SlipState
  <2>4. CASE new.status = "failed"
    BY <1>1, <2>1, <2>2, <2>4, SlipUnseen DEF SlipState
  <2>. QED
    BY <1>2, <2>3, <2>4
<1>. QED
  BY <1>4, <1>5

\* Only what is queued or was deleted meanwhile comes out, and a second time
\* only what the backend does not know of.
LEMMA PaperSlip ==
    ASSUME XInv, NEW a \in Agents, PrintOk(a) \/ PrintBreaksOff(a), NEW j \in Jobs
    PROVE  SlipKeeps(j)
<1>. DEFINE k == agents[a].job
<1>1. /\ paper \in [Jobs -> 0..2] /\ agents[a].step = "printing"
      /\ UNCHANGED jobs /\ paper' = [paper EXCEPT ![k] = OneMore(@)]
      /\ unheard' = unheard \/ unheard' = unheard \cup {k}
  BY DEF PrintOk, PrintBreaksOff, XInv, VInv, IInv, TypeOK
<1>2. CASE j # k
  BY <1>1, <1>2, SlipUnseen
<1>3. CASE j = k
  <2>1. SlipState(jobs[j]) \in {"queued", "deleted"}
    <3>1. InView(agents[a], jobs[j])
      BY <1>1, <1>3 DEF XInv, VInv, RowsInView, AtWork
    <3>. QED
      BY <1>1, <3>1 DEF InView, SlipState
  <2>2. paper'[j] = IF paper[j] < 2 THEN paper[j] + 1 ELSE paper[j]
    BY <1>1, <1>3 DEF OneMore
  <2>3. j \in unheard => j \in unheard'
    BY <1>1
  <2>4. paper[j] > 0 => j \in unheard'
    BY <1>1, <1>3 DEF XInv, NoPaperYet
  <2>. QED
    BY <1>1, <2>1, <2>2, <2>3, <2>4 DEF SlipKeeps, Slip!Next, Slip!PutOut
<1>. QED
  BY <1>2, <1>3

LEMMA UnheardSlip ==
    ASSUME XInv, NEW a \in Agents, ReportUnheard(a) \/ Crash(a), NEW j \in Jobs
    PROVE  SlipKeeps(j)
<1>1. /\ UNCHANGED <<jobs, paper>>
      /\ \/ unheard' = unheard
         \/ unheard' = unheard \cup {agents[a].job} /\ agents[a].outcome = "ok"
  BY DEF ReportUnheard, Crash
<1>2. CASE j \in unheard' <=> j \in unheard
  BY <1>1, <1>2, SlipUnseen
<1>3. CASE ~(j \in unheard' <=> j \in unheard)
  <2>1. j \in unheard' /\ paper[j] > 0
    BY <1>1, <1>3 DEF XInv, VInv, IInv, OkMeansPaper
  <2>. QED
    BY <1>1, <2>1, SlipGoesUnheard
<1>. QED
  BY <1>2, <1>3

LEMMA NextSlip == XInv /\ [Next]_vars => \A j \in Jobs : SlipKeeps(j)
<1>. SUFFICES ASSUME XInv, [Next]_vars, NEW j \in Jobs PROVE SlipKeeps(j)
  OBVIOUS
<1>1. ASSUME NEW a \in Agents,
             \/ \E k \in Jobs : ClaimRefused(a, k)
             \/ \E why \in {"refused", "unreachable"} : PrintFails(a, why)
             \/ SendReport(a) \/ ReadReport(a) \/ WriteFindsNoRow(a) \/ Answered(a)
      PROVE  SlipKeeps(j)
  <2>1. UNCHANGED <<jobs, paper, unheard>>
    BY <1>1 DEF ClaimRefused, PrintFails, SendReport, ReadReport, WriteFindsNoRow, Answered
  <2>. QED
    BY <2>1, SlipUnseen
<1>2. ASSUME NEW a \in Agents, Work(a) \/ Fault(a) PROVE SlipKeeps(j)
  BY <1>1, <1>2, PollSlip, ClaimSlip, WriteSlip, PaperSlip, UnheardSlip
     DEF Work, Fault, Printing, Report
<1>3. CASE Tick
  <2>1. jobs'[j].status = jobs[j].status /\ UNCHANGED <<paper, unheard>>
    BY <1>3 DEF Tick, Aged
  <2>. QED
    BY <2>1, SlipUnseen DEF SlipState
<1>4. CASE UNCHANGED vars
  BY <1>4, SlipUnseen DEF vars
<1>. QED
  BY <1>2, <1>3, <1>4, EditorSlip DEF Next

\* The queue implements PrintSlip for each of its jobs: polls, claims, retries,
\* lost and repeated reports are stutters of the slip, the paper, the verdict
\* and the expiry its steps.
THEOREM QueueKeepsPromise == ASSUME NobodyTakesAJob PROVE Spec => EverySlipKeepsPromise
<1>1. Init => \A j \in Jobs : Slip(j)!Init
  BY DEF Init, Row, SlipState, Slip!Init
<1>2. XInv /\ [Next]_vars => XInv'
  BY NextXInv
<1>3. XInv /\ [Next]_vars => \A j \in Jobs : [Slip(j)!Next]_(Slip(j)!vars)
  BY NextSlip DEF SlipKeeps
<1>. QED
  BY <1>1, <1>2, <1>3, InitXInv, PTL DEF Spec, EverySlipKeepsPromise
=============================================================================
