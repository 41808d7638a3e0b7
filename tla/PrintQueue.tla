----------------------------- MODULE PrintQueue -----------------------------
(***************************************************************************)
(* The print queue of the station: editors queue jobs, print agents poll   *)
(* for them, claim one at a time, print it and report the outcome.         *)
(* Backend side: api/print.py and crud/print_jobs.py. Agent side:          *)
(* tools/print-agent (agent.py, protocols/rueck.py).                       *)
(*                                                                         *)
(* Time passes in ticks. The four ages of the code (created, claimed,      *)
(* completed, and how long an agent has been at its present step) are      *)
(* counters that Tick advances up to Horizon, past which nothing asks.     *)
(* An agent is not slower than PrintTime for a print, every destination of *)
(* the chain together, and ReportTimeout for one attempt to report; the    *)
(* backend answers an attempt or the agent never learns of it. A print may *)
(* outlast the reaper's patience. A long poll that finds nothing is rolled back and   *)
(* is no step here.                                                        *)
(***************************************************************************)
EXTENDS Integers, FiniteSets

CONSTANTS
    Jobs,            \* job ids, numbered in the order of created_at
    Agents,
    Ttl,             \* PRINT_JOB_TTL_SECONDS of the job's type, Forever if none
    Forever,
    StaleTimeout,    \* STALE_PRINTING_TIMEOUT_SECONDS
    RetryDelay,      \* FAILED_RETRY_DELAY_SECONDS
    RequeueMaxAge,   \* REQUEUE_MAX_AGE_SECONDS
    MaxAttempts,     \* MAX_PRINT_ATTEMPTS
    ReportAttempts,  \* 1 + len(REPORT_RETRY_DELAYS_SEC)
    ReportTimeout,   \* REPORT_TIMEOUT_SEC
    PrintTime,       \* the longest print
    MaxFaults,       \* bound: crashes, lost requests and answers, prints broken off
    Horizon          \* bound: where the ages stop growing

ASSUME JobsAreNumbered == Jobs \subseteq Nat

ASSUME TimesAreNumbers ==
    /\ {StaleTimeout, RetryDelay, RequeueMaxAge, MaxAttempts, ReportAttempts,
        ReportTimeout, PrintTime, MaxFaults, Horizon} \subseteq Nat
    /\ Ttl \in [Jobs -> Nat \cup {Forever}]
    /\ {StaleTimeout, RetryDelay, RequeueMaxAge} \subseteq 0..(Horizon - 1)
    /\ \A j \in Jobs : Ttl[j] # Forever => Ttl[j] < Horizon

\* The first attempt counts: 1 + len(REPORT_RETRY_DELAYS_SEC).
ASSUME ReportIsTried == ReportAttempts > 0

VARIABLES
    jobs,    \* the rows of print_jobs
    agents,  \* what each agent is doing
    faults,  \* how many of them so far
    paper,   \* history: how often a job came out of a printer, up to twice
    failed,  \* history: how many attempts at a job really failed or got lost
    unheard  \* history: the jobs that came out of a printer, unknown to the backend

vars == <<jobs, agents, faults, paper, failed, unheard>>

-----------------------------------------------------------------------------
Age == 0..Horizon

\* "absent" is not queued yet, "deleted" has no row any more.
JobStatus == {"absent", "pending", "printing", "completed", "failed", "expired", "deleted"}

\* The ages of created_at, claimed_at (while it prints) and completed_at.
PrintJob == [status : JobStatus, retry : Nat, created : Age, claimed : Age, completed : Age]

Row(status, retry, created) ==
    [status |-> status, retry |-> retry, created |-> created, claimed |-> 0, completed |-> 0]

Outcome == {"none", "ok", "refused", "unreachable"}

\* What a report read of its job; "absent" before it did.
Seen == [status : JobStatus, retry : Nat]
Unread == [status |-> "absent", retry |-> 0]

AgentState == [step : {"idle", "claiming", "printing", "report", "sent", "answered"},
               list : SUBSET Jobs, job : Jobs \cup {-1}, outcome : Outcome,
               attempt : Nat, since : Nat, seen : Seen]

\* An agent that enters a step with job j in hand.
At(step, j, outcome, attempt) ==
    [step |-> step, list |-> {}, job |-> j, outcome |-> outcome,
     attempt |-> attempt, since |-> 0, seen |-> Unread]

Idle == At("idle", -1, "none", 0)

Pending(js) == {j \in Jobs : js[j].status = "pending"}

-----------------------------------------------------------------------------
(* The reaper and the expiry, on the way of every poll. *)

\* A claim this old means the agent died: the claim consumed an attempt.
Stale(job) ==
    /\ job.status = "printing"
    /\ job.claimed > StaleTimeout
    /\ job.retry < MaxAttempts

\* Mutant: what was printed is retried, too.
RetriesPrinted(job) ==
    /\ job.status \in {"failed", "completed"}
    /\ job.completed > RetryDelay
    /\ job.retry < MaxAttempts
    /\ job.created < RequeueMaxAge

\* Mutant: an unreachable printer is tried for ever.
RetriesForEver(job) ==
    /\ job.status = "failed"
    /\ job.completed > RetryDelay
    /\ job.retry < MaxAttempts

Retryable(job) ==
    /\ job.status = "failed"
    /\ job.completed > RetryDelay
    /\ job.retry < MaxAttempts
    /\ job.created < RequeueMaxAge

Requeued(job) ==
    IF Stale(job) THEN Row("pending", job.retry + 1, job.created)
    ELSE IF Retryable(job) THEN Row("pending", job.retry, job.created)
    ELSE job

\* Mutant: a job is retired whatever its status.
ExpiredAnyway(job, ttl) ==
    IF job.status # "absent" /\ ttl # Forever /\ job.created > ttl
    THEN [job EXCEPT !.status = "expired"]
    ELSE job

Expired(job, ttl) ==
    IF job.status = "pending" /\ ttl # Forever /\ job.created > ttl
    THEN [job EXCEPT !.status = "expired"]
    ELSE job

\* Mutant: the expiry runs before the reaper.
ExpiredThenRequeued == [j \in Jobs |-> Requeued(Expired(jobs[j], Ttl[j]))]

Reaped == [j \in Jobs |-> Expired(Requeued(jobs[j]), Ttl[j])]

-----------------------------------------------------------------------------
Init ==
    /\ jobs = [j \in Jobs |-> Row("absent", 0, 0)]
    /\ agents = [a \in Agents |-> Idle]
    /\ faults = 0
    /\ paper = [j \in Jobs |-> 0]
    /\ failed = [j \in Jobs |-> 0]
    /\ unheard = {}

(* Editors. *)

Queue(j) ==
    /\ jobs[j].status = "absent"
    /\ \A k \in Jobs : k < j => jobs[k].status # "absent"
    /\ jobs' = [jobs EXCEPT ![j] = Row("pending", 0, 0)]
    /\ UNCHANGED <<agents, faults, paper, failed, unheard>>

\* No check of the status: a job may be deleted while it prints.
Delete(j) ==
    /\ jobs[j].status \notin {"absent", "deleted"}
    /\ jobs' = [jobs EXCEPT ![j] = Row("deleted", 0, 0)]
    /\ UNCHANGED <<agents, faults, paper, failed, unheard>>

(* The agent. *)

\* get_pending_jobs: reap, expire, then list what is pending.
Poll(a) ==
    /\ agents[a].step = "idle"
    /\ jobs' = Reaped
    /\ failed' = [j \in Jobs |-> IF Stale(jobs[j]) THEN failed[j] + 1 ELSE failed[j]]
    /\ agents' = [agents EXCEPT ![a] =
                    IF Pending(Reaped) = {} THEN Idle
                    ELSE [At("claiming", -1, "none", 0) EXCEPT !.list = Pending(Reaped)]]
    /\ UNCHANGED <<faults, paper, unheard>>

\* claim_print_job: one UPDATE with the status in its WHERE clause.
Claimed(j) == [jobs EXCEPT ![j] = Row("printing", @.retry, @.created)]

\* The list is worked oldest first.
AtHand(a, j) ==
    /\ agents[a].step = "claiming"
    /\ j \in agents[a].list
    /\ \A k \in agents[a].list : j <= k

\* Mutant: the status is not in the WHERE clause.
ClaimAnyStatus(a, j) ==
    /\ AtHand(a, j)
    /\ jobs[j].status # "deleted"
    /\ jobs' = Claimed(j)
    /\ agents' = [agents EXCEPT ![a] = At("printing", j, "none", 0)]
    /\ UNCHANGED <<faults, paper, failed, unheard>>

\* One job at a time; the rest of the list waits for the next poll.
Claim(a, j) ==
    /\ AtHand(a, j)
    /\ jobs[j].status = "pending"
    /\ jobs' = Claimed(j)
    /\ agents' = [agents EXCEPT ![a] = At("printing", j, "none", 0)]
    /\ UNCHANGED <<faults, paper, failed, unheard>>

\* 409 or 404: not ours to print, try the next.
ClaimRefused(a, j) ==
    LET rest == agents[a].list \ {j}
    IN  /\ AtHand(a, j)
        /\ jobs[j].status # "pending"
        /\ agents' = [agents EXCEPT ![a] =
                        IF rest = {} THEN Idle ELSE [@ EXCEPT !.list = rest]]
        /\ UNCHANGED <<jobs, faults, paper, failed, unheard>>

\* The claim is committed and its answer lost: the error ends the agent's cycle.
ClaimUnheard(a, j) ==
    /\ AtHand(a, j)
    /\ jobs[j].status = "pending"
    /\ faults < MaxFaults
    /\ faults' = faults + 1
    /\ jobs' = Claimed(j)
    /\ agents' = [agents EXCEPT ![a] = Idle]
    /\ UNCHANGED <<paper, failed, unheard>>

OneMore(n) == IF n < 2 THEN n + 1 ELSE n

PrintOk(a) ==
    LET j == agents[a].job
    IN  /\ agents[a].step = "printing"
        /\ paper' = [paper EXCEPT ![j] = OneMore(@)]
        /\ agents' = [agents EXCEPT ![a] = At("report", j, "ok", 0)]
        /\ UNCHANGED <<jobs, faults, failed, unheard>>

\* A printer goes silent with the paper half out: it counts as unreachable, and
\* the agent goes on with the next destination.
PrintBreaksOff(a) ==
    LET j == agents[a].job
    IN  /\ agents[a].step = "printing"
        /\ faults < MaxFaults
        /\ faults' = faults + 1
        /\ paper' = [paper EXCEPT ![j] = OneMore(@)]
        /\ unheard' = unheard \cup {j}
        /\ UNCHANGED <<jobs, agents, failed>>

\* No destination took the job: one refused it, or none answered.
PrintFails(a, why) ==
    LET j == agents[a].job
    IN  /\ agents[a].step = "printing"
        /\ agents' = [agents EXCEPT ![a] = At("report", j, why, 0)]
        /\ failed' = [failed EXCEPT ![j] = IF why = "refused" THEN @ + 1 ELSE @]
        /\ UNCHANGED <<jobs, faults, paper, unheard>>

SendReport(a) ==
    LET s == agents[a]
    IN  /\ s.step = "report"
        /\ agents' = [agents EXCEPT ![a] = At("sent", s.job, s.outcome, s.attempt + 1)]
        /\ UNCHANGED <<jobs, faults, paper, failed, unheard>>

\* After an attempt nobody answered: the next one, or the report is given up.
NextAttempt(s) ==
    IF s.attempt < ReportAttempts THEN At("report", s.job, s.outcome, s.attempt) ELSE Idle

(* complete_print_job reads the row without a lock and writes it by its key. *)

ReadReport(a) ==
    LET row == jobs[agents[a].job]
    IN  /\ agents[a].step = "sent"
        /\ agents[a].seen = Unread
        /\ agents' = [agents EXCEPT ![a].seen = [status |-> row.status, retry |-> row.retry]]
        /\ UNCHANGED <<jobs, faults, paper, failed, unheard>>

\* Mutant: a repeated report is taken for a new one.
IgnoredIfGone(s) == s.seen.status \in {"deleted", "expired"}

\* 404, a repeat, or a job already settled: answered, nothing written.
Ignored(s) == s.seen.status \notin {"pending", "printing"}

\* Mutant: a printer that does not answer is taken for a done job.
ReportedUnlessRefused(row, s) ==
    IF s.outcome = "refused" THEN Row("failed", s.seen.retry + 1, row.created)
    ELSE Row("completed", row.retry, row.created)

\* Mutant: an unreachable printer hands an attempt back.
ReportedWithRefund(row, s) ==
    CASE s.outcome = "ok"          -> Row("completed", row.retry, row.created)
      [] s.outcome = "unreachable" -> Row("failed", row.retry - 1, row.created)
      [] OTHER                     -> Row("failed", s.seen.retry + 1, row.created)

\* What a report writes over the row: only a refusal writes retry_count, and
\* from the count it read.
Reported(row, s) ==
    CASE s.outcome = "ok"          -> Row("completed", row.retry, row.created)
      [] s.outcome = "unreachable" -> Row("failed", row.retry, row.created)
      [] OTHER                     -> Row("failed", s.seen.retry + 1, row.created)

WriteReport(a) ==
    LET s == agents[a]
    IN  /\ s.step = "sent" /\ s.seen # Unread
        /\ Ignored(s) \/ jobs[s.job].status # "deleted"
        /\ jobs' = IF Ignored(s) THEN jobs ELSE [jobs EXCEPT ![s.job] = Reported(@, s)]
        /\ agents' = [agents EXCEPT ![a].step = "answered"]
        /\ UNCHANGED <<faults, paper, failed, unheard>>

\* The row went between the read and the write: 500, which the agent retries.
WriteFindsNoRow(a) ==
    LET s == agents[a]
    IN  /\ s.step = "sent" /\ s.seen # Unread
        /\ ~Ignored(s) /\ jobs[s.job].status = "deleted"
        /\ agents' = [agents EXCEPT ![a] = NextAttempt(s)]
        /\ UNCHANGED <<jobs, faults, paper, failed, unheard>>

Answered(a) ==
    /\ agents[a].step = "answered"
    /\ agents' = [agents EXCEPT ![a] = Idle]
    /\ UNCHANGED <<jobs, faults, paper, failed, unheard>>

\* The request is lost on its way, or its answer on the way back.
Unanswered(s) == s.step = "answered" \/ (s.step = "sent" /\ s.seen = Unread)

ReportUnheard(a) ==
    LET s == agents[a]
    IN  /\ Unanswered(s)
        /\ faults < MaxFaults
        /\ faults' = faults + 1
        /\ agents' = [agents EXCEPT ![a] = NextAttempt(s)]
        /\ unheard' = IF s.outcome = "ok" /\ NextAttempt(s) = Idle
                      THEN unheard \cup {s.job} ELSE unheard
        /\ UNCHANGED <<jobs, paper, failed>>

\* The agent dies and is started again, with the paper out or not.
Crash(a) ==
    LET s == agents[a]
    IN  /\ s.step \in {"claiming", "printing", "report"} \/ Unanswered(s)
        /\ faults < MaxFaults
        /\ faults' = faults + 1
        /\ agents' = [agents EXCEPT ![a] = Idle]
        /\ unheard' = IF s.outcome = "ok" THEN unheard \cup {s.job} ELSE unheard
        /\ UNCHANGED <<jobs, paper, failed>>

(* Time. *)

Patience(s) ==
    CASE s.step = "printing"             -> PrintTime
      [] s.step \in {"sent", "answered"} -> ReportTimeout
      [] OTHER                           -> 0

Older(age) == IF age < Horizon THEN age + 1 ELSE age

Aged(job) ==
    [status    |-> job.status,
     retry     |-> job.retry,
     created   |-> IF job.status \in {"pending", "printing", "failed"}
                   THEN Older(job.created) ELSE job.created,
     claimed   |-> IF job.status = "printing" THEN Older(job.claimed) ELSE job.claimed,
     completed |-> IF job.status \in {"failed", "completed"}
                   THEN Older(job.completed) ELSE job.completed]

Tick ==
    /\ \A a \in Agents : agents[a].step # "idle" => agents[a].since < Patience(agents[a])
    /\ jobs' = [j \in Jobs |-> Aged(jobs[j])]
    /\ agents' = [a \in Agents |->
                    IF agents[a].step = "idle" THEN agents[a]
                    ELSE [agents[a] EXCEPT !.since = @ + 1]]
    /\ UNCHANGED <<faults, paper, failed, unheard>>

Report(a) == SendReport(a) \/ ReadReport(a) \/ WriteReport(a) \/ WriteFindsNoRow(a) \/ Answered(a)

Printing(a) == PrintOk(a) \/ \E why \in {"refused", "unreachable"} : PrintFails(a, why)

Work(a) ==
    \/ Poll(a)
    \/ \E j \in Jobs : Claim(a, j) \/ ClaimRefused(a, j)
    \/ Printing(a)
    \/ Report(a)

Fault(a) ==
    \/ \E j \in Jobs : ClaimUnheard(a, j)
    \/ PrintBreaksOff(a)
    \/ ReportUnheard(a)
    \/ Crash(a)

Next ==
    \/ \E j \in Jobs : Queue(j) \/ Delete(j)
    \/ \E a \in Agents : Work(a) \/ Fault(a)
    \/ Tick

Spec == Init /\ [][Next]_vars

\* The agent is a service that is restarted for ever, the backend answers, and
\* the clock runs. Nobody has to queue anything and no fault has to happen.
FairSpec == Spec /\ WF_vars(Tick) /\ \A a \in Agents : WF_vars(Work(a))

-----------------------------------------------------------------------------
(* Properties. *)

TypeOK ==
    /\ jobs \in [Jobs -> PrintJob]
    /\ agents \in [Agents -> AgentState]
    /\ faults \in 0..MaxFaults
    /\ paper \in [Jobs -> 0..2]
    /\ failed \in [Jobs -> Nat]
    /\ unheard \subseteq Jobs

\* The board says "printed" only of a job whose paper came out, whichever
\* agent claimed it, died with it or repeated its report.
CompletedMeansPaper ==
    \A j \in Jobs : jobs[j].status = "completed" => paper[j] > 0

\* A job comes out twice only if a printer broke off, the agent died with the
\* paper out or no attempt to report it arrived: neither a repeat, a retry nor
\* the reaper alone prints it again.
SecondPaperExplained ==
    \A j \in Jobs : paper[j] > 1 => j \in unheard

\* At its print for longer than the reaper or the retry of a failed job waits.
Overdue(s) == s.since > StaleTimeout \/ s.since > RetryDelay

\* Two agents print the same job at the same time only if one of them is so
\* slow that the reaper took the job from it, or the retry after somebody's
\* late report did: the claim is one conditional UPDATE, and no list, repeat,
\* report or crash hands out a job that an agent has not been at for that long.
OnePrinterPerJob ==
    \A a, b \in Agents :
        /\ agents[a].step = "printing" /\ agents[b].step = "printing"
        /\ agents[a].job = agents[b].job
        => a = b \/ Overdue(agents[a]) \/ Overdue(agents[b])

\* retry_count never exceeds the attempts that failed or got lost: an
\* unreachable printer and a repeated report cost the job nothing.
RetryCountsAttempts ==
    \A j \in Jobs : jobs[j].retry <= failed[j]

SettledStays ==
    \A j \in Jobs :
        jobs[j].status \in {"completed", "expired"} =>
            jobs'[j].status \in {jobs[j].status, "deleted"}

\* Whatever is settled stays so: no late or repeated report reopens it.
SettledIsFinal == [][SettledStays]_vars

\* How one job looks from outside: to be printed, or settled in some way.
SlipState(row) ==
    IF row.status \in {"pending", "printing", "failed"} THEN "queued" ELSE row.status

Slip(j) == INSTANCE PrintSlip
    WITH state <- SlipState(jobs[j]), paper <- paper[j], doubt <- j \in unheard

\* Every job keeps what PrintSlip promises. The quantifier stands inside the
\* box, because TLC checks no quantified temporal formula.
EverySlipKeepsPromise ==
    /\ \A j \in Jobs : Slip(j)!Init
    /\ [][\A j \in Jobs : [Slip(j)!Next]_(Slip(j)!vars)]_vars

HandedOverFresh ==
    \A j \in Jobs :
        jobs[j].status = "pending" /\ jobs'[j].status = "printing" =>
            Ttl[j] = Forever \/ jobs[j].created <= Ttl[j]

\* No job is handed to an agent past the life of its content.
NoStaleHandover == [][HandedOverFresh]_vars

\* No queued job is forgotten: it settles, or its attempts are used up.
EveryJobSettles ==
    \A j \in Jobs :
        <>[](/\ jobs[j].status # "pending"
             /\ jobs[j].status = "printing" => jobs[j].retry >= MaxAttempts)

=============================================================================
